---- MODULE Spec2Model ----
(***************************************************************************)
(* Verification model of zensical: the HTTP server's connection state      *)
(* machine and event loop (crates/zensical-serve), and the file watcher's  *)
(* monitor and manager (crates/zensical-watch).                            *)
(*                                                                         *)
(* The module holds several specifications over one set of variables:      *)
(*   SpecServer   Server::poll with Connection::read / Connection::write   *)
(*   SpecMonitor  Monitor::watch / Monitor::unwatch / Monitor::configure   *)
(*   SpecManager  Manager::handle over a changing file system              *)
(*   SpecReload   Server::poll with the reload channel and the waker       *)
(*   SpecAgent    the agent's loop over Handler::handle                    *)
(* A specification leaves the variables of the other parts at their        *)
(* initial values.                                                         *)
(***************************************************************************)
EXTENDS Integers, Sequences, FiniteSets, TLC

(***************************************************************************)
(* Bounds of the server model.                                             *)
(***************************************************************************)
\* sockets a run accepts in total
MaxSock == 1
\* bytes the clients send in total
MaxBytes == 2
\* length of a serialized response
MaxResp == 2
\* socket write calls of one write step
MaxWrites == 2
\* readiness events of one tick
MaxEvents == 2
\* the read step's temp buffer ([0u8; 1024]), scaled
TempLen == 1
\* acceptors the server listens on (acceptors.len())
NumAcceptors == 1
\* notifications sent on the reload channel in a run
MaxNotes == 2
\* steps of the clock in one second: an Instant is known to half a second
UnitsPerSec == 2

(***************************************************************************)
(* Bounds of the monitor model.                                            *)
(***************************************************************************)
\* names a path component of a watched root is drawn from
MonNames == 2
\* components of a watched root
MonDepth == 3
\* roots recorded at a time
MaxRoots == 3
\* backend calls that fail in a run
MaxFail == 1

(***************************************************************************)
(* Bounds of the manager model.                                            *)
(***************************************************************************)
\* names of path components: name n is the letter "a" written n times
FsNames == 2
\* longest path, in components
FsDepth == 3
\* file identifiers (inode numbers)
MaxIds == 6
\* longest queue of raw paths given to one Manager::handle call
MaxBatch == 2
\* actions and monitor messages sent to the agent in one run
MaxArrivals == 3

(***************************************************************************)
(* Bounds of the middleware model.                                         *)
(***************************************************************************)
\* characters of a request path
MaxPath == 4
\* middlewares of a stack
MaxStack == 3
\* characters of a request path given to a router
MaxRoutePath == 6
\* words, spaces and commas of a Connection header
MaxTokens == 3
\* seconds the modification time of a file and the dates of a request
\* span
MaxSecs == 3

\* the pieces of a request path, the pairs of a query string, the
\* characters of an encoded string
MaxUnits == 5

MaxPairs == 3

MaxStr == 3

\* changes made to the file system in one run
MaxFsOps == 3
\* symbolic links followed while resolving one path
MaxHops == 2

VARIABLES
    \* ---- server (crates/zensical-serve/src/server.rs) ----
    connections,  \* Slab<Connection>: [entries, next]
    clients,      \* Slab<WebSocket<TcpStream>>: the sockets of the peers
    registry,     \* the poller's registrations: socket -> [token, interest]
    events,       \* the events of the current tick not yet handled
    status,       \* "running", or how poll ended: "panicked", "hung"
    backlog,      \* sockets waiting in the acceptor's queue
    nextSock,     \* next socket identity
    net,          \* per socket, the peer's side: [in, peer]
    budget,       \* bytes the peers may still send
    sent,         \* per socket, the bytes written to it for its last response
    responded,    \* per socket, the bytes of its last response
    lastRead,     \* what the last read step did
    lastWrite,    \* what the last write step did
    reload,       \* the reload channel and the waker, as the loop sees them
    lastTick,     \* what the last sweep or the last waker event did
    \* ---- monitor (crates/zensical-watch/src/agent/monitor.rs) ----
    monKind,      \* Monitor::kind: "Kqueue" or another backend
    monPaths,     \* Monitor::paths: BTreeMap<PathBuf, bool>
    watching,     \* the paths the backend (Monitor::watcher) watches
    monFailed,    \* a call of the monitor has returned an error
    monFails,     \* backend calls that have failed
    monLast,      \* the last call: its path, result and backend calls
    \* ---- manager (crates/zensical-watch/src/agent/manager.rs) ----
    fs,           \* the file system: path -> [id, type, target]
    manager,      \* Manager: [paths, ids, links]
    queue,        \* Handler::queue: the raw paths not yet handled
    handled,      \* the last Manager::handle call, until it is delivered
    fsOps,        \* changes made to the file system so far
    \* ---- agent (crates/zensical-watch/src/agent/handler.rs) ----
    channel,      \* Handler::receiver: the actions sent and not yet received
    rawq,         \* the monitor's receiver: its messages not yet received
    timer,        \* the timeout of the running select: never, armed, expired
    agent,        \* the agent's thread: "running" or "exited"
    arrivals,     \* actions and messages sent so far
    lastStep,     \* what the last Handler::handle call did
    owner,        \* the Agent handle: held or dropped, and its last call
    \* ---- middlewares (crates/zensical-serve/src/handler, middleware) ----
    call          \* the last call of a middleware: its input and its result

serverVars == <<connections, clients, registry, events, status, backlog,
                nextSock, net, budget, sent, responded, lastRead,
                lastWrite, reload, lastTick>>

monitorVars == <<monKind, monPaths, watching, monFailed, monFails,
                 monLast>>

managerVars == <<fs, manager, queue, handled, fsOps>>

agentVars == <<channel, rawq, timer, agent, arrivals, lastStep, owner>>

middlewareVars == <<call>>

vars ==
    <<serverVars, monitorVars, managerVars, agentVars, middlewareVars>>

(***************************************************************************)
(* Sequence helpers.                                                       *)
(***************************************************************************)
Min(a, b) == IF a <= b THEN a ELSE b

Range(s) == {s[i] : i \in 1..Len(s)}

Take(s, k) == SubSeq(s, 1, Min(k, Len(s)))

Drop(s, k) == SubSeq(s, Min(k, Len(s)) + 1, Len(s))

IsPrefix(s, t) == Len(s) <= Len(t) /\ SubSeq(t, 1, Len(s)) = s

(***************************************************************************)
(* The slab crate's slot allocator, as Server uses it: insert takes the    *)
(* slot freed last (or appends), remove leaves a vacant entry that links   *)
(* to the slot freed before it.                                            *)
(***************************************************************************)
EmptySlab == [entries |-> <<>>, next |-> 0]

Vacant(next) == [tag |-> "Vacant", next |-> next]

SlabContains(slab, key) ==
    /\ key >= 0
    /\ key < Len(slab.entries)
    /\ slab.entries[key + 1].tag = "Conn"

SlabKeys(slab) == {k \in 0..(Len(slab.entries) - 1) : SlabContains(slab, k)}

SlabGet(slab, key) == slab.entries[key + 1]

SlabSet(slab, key, val) ==
    [slab EXCEPT !.entries = [slab.entries EXCEPT ![key + 1] = val]]

SlabInsert(slab, val) ==
    IF slab.next = Len(slab.entries)
    THEN [entries |-> Append(slab.entries, val), next |-> slab.next + 1]
    ELSE [entries |-> [slab.entries EXCEPT ![slab.next + 1] = val],
          next |-> slab.entries[slab.next + 1].next]

SlabRemove(slab, key) ==
    [entries |-> [slab.entries EXCEPT ![key + 1] = Vacant(slab.next)],
     next |-> key]

(***************************************************************************)
(* Requests and responses, as far as the connection looks at them.  The    *)
(* peer's bytes are "b" (the request is not complete yet) or a byte that   *)
(* makes Request::from_bytes decide: "ok" completes a valid request, "uri" *)
(* and "big" make it a validation error (the target or the body is too     *)
(* long), "err" a parser error.                                            *)
(***************************************************************************)
SwitchingProtocols == 101

Ok == 200

Found == 302

NotModified == 304

NotFound == 404

ImATeapot == 418

BadRequest == 400

MethodNotAllowed == 405

UpgradeRequired == 426

PayloadTooLarge == 413

UriTooLong == 414

HandlerStatuses == {200, SwitchingProtocols}

InBytes == {"b", "ok", "uri", "big", "err"}

\* Error::Validation(status): the status a validation error carries
Validations == {"uri", "big"}

ValidationStatus(parsed) ==
    IF parsed = "uri" THEN UriTooLong ELSE PayloadTooLarge

RECURSIVE FromBytes(_)
FromBytes(buffer) ==
    IF buffer = <<>> THEN "Incomplete"
    ELSE IF Head(buffer) = "b" THEN FromBytes(Tail(buffer))
    ELSE Head(buffer)

FromStatus(st) == [status |-> st, len |-> MaxResp]

\* the response to a request that cannot be parsed: 400 whatever the error
ParseErrorBadRequest(parsed) == FromStatus(BadRequest)

\* the response to a request that cannot be parsed: the status of a
\* validation error, or 400
ParseError(parsed) ==
    IF parsed \in Validations
    THEN FromStatus(ValidationStatus(parsed))
    ELSE FromStatus(BadRequest)

IntoBytes(res) == [i \in 1..res.len |-> <<res.status, i>>]

Responses == [status : HandlerStatuses, len : 1..MaxResp]

(***************************************************************************)
(* Connection (server/connection.rs).                                      *)
(***************************************************************************)
\* Connection::time is kept as the age of the last activity, in steps of
\* the clock: Instant::now() is age 0.
NewConnection(socket) ==
    [tag |-> "Conn", socket |-> socket, state |-> "Reading", buffer |-> <<>>,
     cursor |-> <<>>, pos |-> 0, upgrade |-> FALSE, age |-> 0]

\* self.time = Instant::now()
Touch(conn) == [conn EXCEPT !.age = 0]

\* the limit of Connection::is_timed_out, in seconds
TimeoutSecs == 30

\* Duration::as_secs: the whole seconds of a duration
AsSecs(age) == age \div UnitsPerSec

\* Connection::is_timed_out
IsTimedOut(age) == AsSecs(age) > TimeoutSecs

Interest(i) == [kind |-> "Interest", interest |-> i]

Continue == [kind |-> "Continue"]

Close == [kind |-> "Close"]

Upgrade == [kind |-> "Upgrade"]

Writing(conn, res, upgrade) ==
    [conn EXCEPT !.state = "Writing", !.buffer = <<>>,
                 !.cursor = IntoBytes(res), !.pos = 0, !.upgrade = upgrade]

\* What socket.read(&mut temp) returns for the peer state p.
SocketReads(p) ==
    IF p.peer = "reset" THEN {[kind |-> "Err", bytes |-> <<>>]}
    ELSE IF p.in = <<>>
         THEN IF p.peer = "eof" THEN {[kind |-> "Ok", bytes |-> <<>>]}
              ELSE {[kind |-> "WouldBlock", bytes |-> <<>>]}
         ELSE {[kind |-> "Ok", bytes |-> Take(p.in, k)] :
                 k \in 1..Min(TempLen, Len(p.in))}

\* The body of Connection::read for a connection that is Reading: rd is
\* the result of the socket read, res the response the handler gives if it
\* is invoked.
ReadReading(conn, rd, res) ==
    CASE rd.kind = "Ok" /\ rd.bytes = <<>> ->
           [conn |-> conn, signal |-> Close, invoked |-> FALSE,
            called |-> TRUE, out |-> <<>>]
      [] rd.kind = "Ok" /\ rd.bytes # <<>> ->
           LET buffer == conn.buffer \o rd.bytes
               parsed == FromBytes(buffer)
           IN  CASE parsed = "ok" ->
                      [conn |-> Writing(conn, res,
                                        res.status = SwitchingProtocols),
                       signal |-> Interest({"W"}), invoked |-> TRUE,
                       called |-> TRUE, out |-> IntoBytes(res)]
                 [] parsed = "Incomplete" ->
                      [conn |-> [conn EXCEPT !.buffer = buffer],
                       signal |-> Interest({"R"}), invoked |-> FALSE,
                       called |-> TRUE, out |-> <<>>]
                 [] OTHER ->
                      [conn |-> Writing(conn, ParseError(parsed), FALSE),
                       signal |-> Interest({"W"}), invoked |-> FALSE,
                       called |-> TRUE,
                       out |-> IntoBytes(ParseError(parsed))]
      [] rd.kind = "WouldBlock" ->
           [conn |-> conn, signal |-> Continue, invoked |-> FALSE,
            called |-> TRUE, out |-> <<>>]
      [] OTHER ->
           [conn |-> conn, signal |-> Close, invoked |-> FALSE,
            called |-> TRUE, out |-> <<>>]

\* Connection::read without the test of the buffer state.
ConnectionReadAnyState(conn, rd, res) == ReadReading(conn, rd, res)

\* Connection::read.
ConnectionRead(conn, rd, res) ==
    IF conn.state = "Reading"
    THEN ReadReading(Touch(conn), rd, res)
    ELSE [conn |-> conn, signal |-> Interest({"W"}), invoked |-> FALSE,
          called |-> FALSE, out |-> <<>>]

\* The results socket.write can give: Ok(n), WouldBlock, or another error.
WriteResults ==
    [kind : {"Ok"}, n : 0..MaxResp] \cup
    [kind : {"WouldBlock", "Err"}, n : {0}]

\* cursor.set_position that moves one byte on, whatever was written.
SetPositionByOne(pos, bytes) == pos + 1

\* cursor.set_position((pos + bytes) as u64).
SetPosition(pos, bytes) == pos + bytes

\* The loop of Connection::write over the results of its socket writes.
\* ret is "break" (all bytes written), "Continue", "Close", "spin" (the
\* results are used up and the loop is still running) or "invalid" (a
\* result the socket cannot give for the bytes it was handed); rest are the
\* results not used.
RECURSIVE WriteLoop(_, _, _, _)
WriteLoop(cursor, pos, outs, wrote) ==
    IF pos >= Len(cursor)
    THEN [ret |-> "break", pos |-> pos, wrote |-> wrote, rest |-> outs]
    ELSE IF outs = <<>>
    THEN [ret |-> "spin", pos |-> pos, wrote |-> wrote, rest |-> outs]
    ELSE LET o == Head(outs)
         IN  CASE o.kind = "Ok" /\ o.n = 0 ->
                    [ret |-> "Close", pos |-> pos, wrote |-> wrote,
                     rest |-> Tail(outs)]
               [] o.kind = "Ok" /\ o.n > Len(cursor) - pos ->
                    [ret |-> "invalid", pos |-> pos, wrote |-> wrote,
                     rest |-> outs]
               [] o.kind = "Ok" ->
                    WriteLoop(cursor, SetPosition(pos, o.n), Tail(outs),
                              wrote \o SubSeq(cursor, pos + 1, pos + o.n))
               [] o.kind = "WouldBlock" ->
                    [ret |-> "Continue", pos |-> pos, wrote |-> wrote,
                     rest |-> Tail(outs)]
               [] OTHER ->
                    WriteLoop(cursor, pos, Tail(outs), wrote)

\* Connection::write: outs are the results of its socket writes.
ConnectionWrite(conn, outs) ==
    LET loop == IF conn.state = "Writing"
                THEN WriteLoop(conn.cursor, conn.pos, outs, <<>>)
                ELSE [ret |-> "break", pos |-> conn.pos, wrote |-> <<>>,
                      rest |-> outs]
        cur == IF conn.state = "Writing" THEN Touch(conn) ELSE conn
        reset == [cur EXCEPT !.state = "Reading", !.buffer = <<>>,
                             !.cursor = <<>>, !.pos = 0, !.upgrade = FALSE]
    IN  CASE loop.ret = "break" ->
               [conn |-> reset,
                signal |-> IF conn.state = "Writing" /\ conn.upgrade
                           THEN Upgrade ELSE Interest({"R"}),
                ret |-> loop.ret, wrote |-> loop.wrote, rest |-> loop.rest]
          [] loop.ret = "Continue" ->
               [conn |-> [cur EXCEPT !.pos = loop.pos], signal |-> Continue,
                ret |-> loop.ret, wrote |-> loop.wrote, rest |-> loop.rest]
          [] loop.ret = "Close" ->
               [conn |-> [cur EXCEPT !.pos = loop.pos], signal |-> Close,
                ret |-> loop.ret, wrote |-> loop.wrote, rest |-> loop.rest]
          [] OTHER ->
               [conn |-> [cur EXCEPT !.pos = loop.pos], signal |-> Continue,
                ret |-> loop.ret, wrote |-> loop.wrote, rest |-> loop.rest]

(***************************************************************************)
(* Server (server.rs): the state of the loop and of the peers.             *)
(***************************************************************************)
\* the sockets a run can open
Socks == DOMAIN registry

Acceptors == 0..(NumAcceptors - 1)

NotRegistered == [token |-> -1, interest |-> {}]

\* Token(usize::MAX) of the poller's waker, scaled
WakerToken == 65535

\* the timeout of events.poll, in seconds
PollSecs == 10

\* The reload channel: the notifications buffered in it, the senders alive,
\* whether poll is given the receiver, whether the waker has been signalled
\* since the last poll, how many notifications were sent so far, and
\* whether the callback of the watcher stands between its send and its
\* wake.
NoReload ==
    [pending |-> <<>>, senders |-> 0, supplied |-> FALSE, woken |-> FALSE,
     count |-> 0, sending |-> FALSE]

NoStep == [ran |-> FALSE]

InitSockets(socks, bytes) ==
    /\ connections = EmptySlab
    /\ clients = {}
    /\ registry = [s \in socks |-> NotRegistered]
    /\ events = <<>>
    /\ status = "running"
    /\ backlog = [a \in Acceptors |-> <<>>]
    /\ nextSock = 1
    /\ net = [s \in socks |->
                [in |-> <<>>, peer |-> "open"]]
    /\ budget = bytes
    /\ sent = [s \in socks |-> <<>>]
    /\ responded = [s \in socks |-> <<>>]
    /\ lastRead = NoStep
    /\ lastWrite = NoStep
    /\ lastTick = NoStep

InitLoop(bytes) == InitSockets(1..MaxSock, bytes)

\* Server::poll(None): no receiver, and nobody holds the waker.
InitServer == InitLoop(MaxBytes) /\ reload = NoReload

\* The sockets of the HTTP connections.
HttpSockets ==
    {SlabGet(connections, k).socket : k \in SlabKeys(connections)}

Pending == UNION {Range(backlog[a]) : a \in Acceptors}

\* The peers act between two ticks: what they do while the loop works off
\* the events of a tick is seen by the loop as if done before the poll.
\* A client connects to an acceptor.
Connect(a) ==
    /\ events = <<>>
    /\ nextSock \in Socks
    /\ backlog' = [backlog EXCEPT ![a] = Append(@, nextSock)]
    /\ nextSock' = nextSock + 1
    /\ lastRead' = NoStep
    /\ lastWrite' = NoStep
    /\ lastTick' = NoStep
    /\ UNCHANGED <<connections, clients, registry, events, status, net,
                   budget, sent, responded,
                   reload, monitorVars, managerVars, agentVars, middlewareVars>>

\* The peer of socket s sends one more byte.
ClientSend(s, b) ==
    /\ events = <<>>
    /\ s \in HttpSockets \cup Pending
    /\ net[s].peer = "open"
    /\ budget > 0
    /\ net' = [net EXCEPT ![s].in = Append(@, b)]
    /\ budget' = budget - 1
    /\ lastRead' = NoStep
    /\ lastWrite' = NoStep
    /\ lastTick' = NoStep
    /\ UNCHANGED <<connections, clients, registry, events, status, backlog,
                   nextSock, sent, responded,
                   reload, monitorVars, managerVars, agentVars, middlewareVars>>

\* The peer of socket s shuts its side down: reads end with Ok(0).
ClientShutdown(s) ==
    /\ events = <<>>
    /\ s \in HttpSockets
    /\ net[s].peer = "open"
    /\ net' = [net EXCEPT ![s].peer = "eof"]
    /\ lastRead' = NoStep
    /\ lastWrite' = NoStep
    /\ lastTick' = NoStep
    /\ UNCHANGED <<connections, clients, registry, events, status, backlog,
                   nextSock, budget, sent, responded,
                   reload, monitorVars, managerVars, agentVars, middlewareVars>>

\* The connection of socket s is reset: reads fail.
ClientReset(s) ==
    /\ events = <<>>
    /\ s \in HttpSockets
    /\ net[s].peer # "reset"
    /\ net' = [net EXCEPT ![s].peer = "reset"]
    /\ lastRead' = NoStep
    /\ lastWrite' = NoStep
    /\ lastTick' = NoStep
    /\ UNCHANGED <<connections, clients, registry, events, status, backlog,
                   nextSock, budget, sent, responded,
                   reload, monitorVars, managerVars, agentVars, middlewareVars>>

\* Another thread sends a notification on the reload channel.
Notify ==
    /\ events = <<>>
    /\ reload.senders > 0
    /\ reload.count < MaxNotes
    /\ reload' = [reload EXCEPT !.pending = Append(@, reload.count + 1),
                                !.count = @ + 1]
    /\ lastRead' = NoStep
    /\ lastWrite' = NoStep
    /\ lastTick' = NoStep
    /\ UNCHANGED <<connections, clients, registry, events, status, backlog,
                   nextSock, net, budget, sent, responded,
                   monitorVars, managerVars, agentVars, middlewareVars>>

\* Another thread signals the waker.
Wake ==
    /\ events = <<>>
    /\ ~reload.woken
    /\ reload' = [reload EXCEPT !.woken = TRUE]
    /\ lastRead' = NoStep
    /\ lastWrite' = NoStep
    /\ lastTick' = NoStep
    /\ UNCHANGED <<connections, clients, registry, events, status, backlog,
                   nextSock, net, budget, sent, responded,
                   monitorVars, managerVars, agentVars, middlewareVars>>

\* The callback of the watcher, which runs in the thread of the agent at
\* any time, also while the loop works off the events of a tick: first
\* let _ = reload.send(path)
WatcherSend ==
    /\ reload.senders > 0
    /\ ~reload.sending
    /\ reload.count < MaxNotes
    /\ reload' = [reload EXCEPT !.pending = Append(@, reload.count + 1),
                                !.count = @ + 1, !.sending = TRUE]
    /\ UNCHANGED <<connections, clients, registry, events, status, backlog,
                   nextSock, net, budget, sent, responded, lastRead,
                   lastWrite, lastTick, monitorVars, managerVars,
                   agentVars, middlewareVars>>

\* a callback that returns without a wake
WakeDropped(r) == [r EXCEPT !.sending = FALSE]

\* waker.wake()
WakerWake(r) == [r EXCEPT !.woken = TRUE, !.sending = FALSE]

\* then waker.wake()
WatcherWake ==
    /\ reload.sending
    /\ reload' = WakerWake(reload)
    /\ UNCHANGED <<connections, clients, registry, events, status, backlog,
                   nextSock, net, budget, sent, responded, lastRead,
                   lastWrite, lastTick, monitorVars, managerVars,
                   agentVars, middlewareVars>>

\* The last sender of the reload channel is dropped.
DropSender ==
    /\ events = <<>>
    /\ reload.senders > 0
    /\ reload' = [reload EXCEPT !.senders = @ - 1]
    /\ lastRead' = NoStep
    /\ lastWrite' = NoStep
    /\ lastTick' = NoStep
    /\ UNCHANGED <<connections, clients, registry, events, status, backlog,
                   nextSock, net, budget, sent, responded,
                   monitorVars, managerVars, agentVars, middlewareVars>>

\* The events one poll can report: the waker if it has been signalled, an
\* acceptor with a pending socket, and any registered socket with any
\* readiness (mio allows spurious events).  An event remembers the socket
\* it was raised for, which the loop does not see.
ReadyEvents ==
    {[token |-> WakerToken, readable |-> TRUE, writable |-> FALSE,
      socket |-> 0] :
        x \in {y \in {0} : reload.woken}}
    \cup
    {[token |-> a, readable |-> TRUE, writable |-> FALSE, socket |-> 0] :
        a \in {x \in Acceptors : backlog[x] # <<>>}}
    \cup
    {[token |-> registry[s].token, readable |-> f[1], writable |-> f[2],
      socket |-> s] :
        s \in {x \in Socks : registry[x] # NotRegistered},
        f \in {<<TRUE, FALSE>>, <<FALSE, TRUE>>, <<TRUE, TRUE>>}}

EventSeqs ==
    {<<>>} \cup {<<e>> : e \in ReadyEvents} \cup
    (IF MaxEvents >= 2
     THEN {q \in ReadyEvents \X ReadyEvents : q[1].token # q[2].token}
     ELSE {})

\* Signal::Interest that leaves the registration as it is.
KeepInterest(st, key, n, interest) == st

\* Signal::Interest: reregister, with write interest while writing.
ApplyInterest(st, key, n, interest) ==
    LET conn == SlabGet(st.connections, key)
    IN  [st EXCEPT !.registry[conn.socket] =
            [token |-> n,
             interest |-> interest \cup
                 (IF conn.state = "Writing" THEN {"W"} ELSE {})]]

\* Signal::Close: remove the connection and deregister its socket.
ApplyClose(st, key) ==
    LET conn == SlabGet(st.connections, key)
    IN  [st EXCEPT !.connections = SlabRemove(st.connections, key),
                   !.registry[conn.socket] = NotRegistered]

\* Signal::Upgrade that leaves the connection in the HTTP pool.
ApplyUpgradeKeep(st, key) ==
    LET conn == SlabGet(st.connections, key)
    IN  [st EXCEPT !.registry[conn.socket] = NotRegistered,
                   !.clients = st.clients \cup {conn.socket}]

\* Signal::Upgrade: remove the connection, deregister its socket and insert
\* it into the WebSocket clients.
ApplyUpgrade(st, key) ==
    LET conn == SlabGet(st.connections, key)
    IN  [st EXCEPT !.connections = SlabRemove(st.connections, key),
                   !.registry[conn.socket] = NotRegistered,
                   !.clients = st.clients \cup {conn.socket}]

\* The time that passes from one tick's Instant::now() to the next's, in
\* steps of the clock: none, the timeout of the poll, or that and the time
\* the handlers of the tick before took.
Advance == {0, PollSecs * UnitsPerSec, PollSecs * UnitsPerSec + 1}

\* The connections, each older by dt.
Aged(slab, dt) ==
    [slab EXCEPT !.entries =
        [i \in DOMAIN slab.entries |->
            IF slab.entries[i].tag = "Conn"
            THEN [slab.entries[i] EXCEPT !.age = @ + dt]
            ELSE slab.entries[i]]]

\* for (n, conn) in &self.connections: the keys with conn.is_timed_out(now)
TimedOut(slab) ==
    {k \in SlabKeys(slab) : IsTimedOut(SlabGet(slab, k).age)}

\* Removes the timed out connections in the order of their keys and
\* deregisters their sockets.
RECURSIVE Sweep(_, _)
Sweep(st, keys) ==
    IF keys = {} THEN st
    ELSE LET n == CHOOSE k \in keys : \A j \in keys : k <= j
         IN  Sweep(ApplyClose(st, n), keys \ {n})

\* Server::poll up to the loop over the events: the poll, which returns
\* without an event only when its timeout has passed, and the sweep of the
\* timed out connections.
Poll(evs, dt) ==
    /\ status = "running"
    /\ events = <<>>
    /\ evs = <<>> => dt >= PollSecs * UnitsPerSec
    /\ LET aged == Aged(connections, dt)
           st == Sweep([connections |-> aged, registry |-> registry],
                       TimedOut(aged))
       IN  /\ connections' = st.connections
           /\ registry' = st.registry
           /\ lastTick' = [ran |-> TRUE, step |-> "sweep",
                           idle |-> [k \in SlabKeys(aged) |->
                                        [age |-> SlabGet(aged, k).age,
                                         socket |-> SlabGet(aged, k).socket]],
                           removed |-> TimedOut(aged),
                           peers |-> clients]
    /\ events' = evs
    /\ reload' = [reload EXCEPT !.woken =
                     @ /\ \A i \in 1..Len(evs) : evs[i].token # WakerToken]
    /\ lastRead' = NoStep
    /\ lastWrite' = NoStep
    /\ UNCHANGED <<clients, status, backlog, nextSock,
                   net, budget, sent, responded,
                   monitorVars, managerVars, agentVars, middlewareVars>>

\* Accepts the sockets of queue q, one after the other.
RECURSIVE AcceptAll(_, _)
AcceptAll(st, q) ==
    IF q = <<>> THEN st
    ELSE LET n == st.connections.next
             slab == SlabInsert(st.connections, NewConnection(Head(q)))
         IN  AcceptAll(
                 [connections |-> slab,
                  registry |-> [st.registry EXCEPT ![Head(q)] =
                      [token |-> NumAcceptors + n, interest |-> {"R"}]]],
                 Tail(q))

\* An event of an acceptor: accept until WouldBlock.
AcceptorEvent ==
    /\ status = "running"
    /\ events # <<>>
    /\ Head(events).token \in Acceptors
    /\ LET a == Head(events).token
           st == AcceptAll([connections |-> connections,
                            registry |-> registry], backlog[a])
       IN  /\ connections' = st.connections
           /\ registry' = st.registry
           /\ backlog' = [backlog EXCEPT ![a] = <<>>]
    /\ events' = Tail(events)
    /\ lastRead' = NoStep
    /\ lastWrite' = NoStep
    /\ lastTick' = NoStep
    /\ UNCHANGED <<clients, status, nextSock, net, budget, sent, responded,
                   reload, monitorVars, managerVars, agentVars, middlewareVars>>

\* An event whose token is no acceptor's and no connection's is passed over.
StaleEvent ==
    /\ status = "running"
    /\ events # <<>>
    /\ Head(events).token \notin Acceptors \cup {WakerToken}
    /\ ~SlabContains(connections, Head(events).token - NumAcceptors)
    /\ events' = Tail(events)
    /\ lastRead' = NoStep
    /\ lastWrite' = NoStep
    /\ lastTick' = NoStep
    /\ UNCHANGED <<connections, clients, registry, status, backlog, nextSock,
                   net, budget, sent, responded,
                   reload, monitorVars, managerVars, agentVars, middlewareVars>>

\* Applies the signals of the event with token n, in order.  Indexing or
\* removing a slot that is vacant panics.
RECURSIVE ApplySignals(_, _, _)
ApplySignals(st, sigs, n) ==
    IF sigs = <<>> \/ st.status # "running" THEN st
    ELSE LET sig == Head(sigs)
             key == n - NumAcceptors
         IN  CASE sig.kind = "Continue" ->
                    ApplySignals(st, Tail(sigs), n)
               [] ~SlabContains(st.connections, key) ->
                    [st EXCEPT !.status = "panicked"]
               [] sig.kind = "Interest" ->
                    ApplySignals(ApplyInterest(st, key, n, sig.interest),
                                 Tail(sigs), n)
               [] sig.kind = "Close" ->
                    ApplySignals(ApplyClose(st, key), Tail(sigs), n)
               [] OTHER ->
                    ApplySignals(ApplyUpgrade(st, key), Tail(sigs), n)

WriteSeqs ==
    UNION {[1..k -> WriteResults] : k \in 1..MaxWrites}

\* An event of a connection: the read step if readable, the write step if
\* writable, then the signals of both.
ConnectionEvent ==
    /\ status = "running"
    /\ events # <<>>
    /\ Head(events).token \notin Acceptors \cup {WakerToken}
    /\ SlabContains(connections, Head(events).token - NumAcceptors)
    /\ LET ev == Head(events)
           key == ev.token - NumAcceptors
           conn == SlabGet(connections, key)
           s == conn.socket
       IN  \E rd \in (IF ev.readable
                      THEN SocketReads(net[s])
                      ELSE {[kind |-> "WouldBlock", bytes |-> <<>>]}) :
           \E res \in (IF ev.readable
                          /\ FromBytes(conn.buffer \o rd.bytes) = "ok"
                       THEN Responses ELSE {FromStatus(BadRequest)}) :
             LET r == IF ev.readable THEN ConnectionRead(conn, rd, res)
                      ELSE [conn |-> conn, out |-> <<>>, called |-> FALSE]
                 nread == IF r.called THEN Len(rd.bytes) ELSE 0
             IN  \E outs \in (IF ev.writable /\ r.conn.state = "Writing"
                              THEN WriteSeqs ELSE {<<>>}) :
                    LET w == IF ev.writable THEN ConnectionWrite(r.conn, outs)
                             ELSE [conn |-> r.conn, wrote |-> <<>>,
                                   ret |-> "none", rest |-> <<>>]
                        sigs == (IF ev.readable THEN <<r.signal>> ELSE <<>>)
                                \o (IF ev.writable /\ w.ret # "spin"
                                    THEN <<w.signal>> ELSE <<>>)
                        st == ApplySignals(
                                 [connections |->
                                     SlabSet(connections, key, w.conn),
                                  registry |-> registry,
                                  clients |-> clients,
                                  status |-> "running"],
                                 sigs, ev.token)
                        \* the bytes of the response in flight, and those
                        \* of them written to the socket so far
                        response == IF r.out # <<>> THEN r.out
                                    ELSE responded[s]
                        sentAll == (IF r.out # <<>> THEN <<>> ELSE sent[s])
                                   \o w.wrote
                        inflight ==
                            /\ st.status = "running"
                            /\ SlabContains(st.connections, key)
                            /\ SlabGet(st.connections, key).socket = s
                            /\ SlabGet(st.connections, key).state = "Writing"
                    IN  /\ w.rest = <<>>
                        /\ w.ret # "invalid"
                        /\ w.ret = "spin" => outs[Len(outs)].kind = "Err"
                        /\ connections' = st.connections
                        /\ registry' = st.registry
                        /\ clients' = st.clients
                        /\ status' = IF w.ret = "spin" THEN "hung"
                                     ELSE st.status
                        /\ events' = IF w.ret = "spin" THEN events
                                     ELSE Tail(events)
                        /\ net' = [net EXCEPT ![s].in = Drop(@, nread)]
                        /\ sent' = [sent EXCEPT ![s] =
                                 IF inflight THEN sentAll ELSE <<>>]
                        /\ responded' = [responded EXCEPT ![s] =
                                 IF inflight THEN response ELSE <<>>]
                        /\ lastRead' =
                             IF ev.readable
                             THEN [ran |-> TRUE, socket |-> s, pre |-> conn,
                                   post |-> r.conn, invoked |-> r.invoked,
                                   called |-> r.called,
                                   nread |-> nread,
                                   bytes |-> Take(rd.bytes, nread),
                                   signal |-> r.signal,
                                   owed |-> Len(responded[s]) - Len(sent[s])]
                             ELSE NoStep
                        /\ lastWrite' =
                             IF ev.writable
                             THEN [ran |-> TRUE, socket |-> s, pre |-> r.conn,
                                   post |-> w.conn, ret |-> w.ret,
                                   signal |-> w.signal, sent |-> sentAll,
                                   failed |-> \E i \in DOMAIN outs :
                                                 outs[i].kind = "Err",
                                   response |-> response]
                             ELSE NoStep
    /\ lastTick' = NoStep
    /\ UNCHANGED <<backlog, nextSock, budget,
                   reload, monitorVars, managerVars, agentVars, middlewareVars>>

\* clients.retain that keeps no peer
RetainNone(peers, failing) == {}

\* clients.retain(|_, socket| socket.send(..).is_ok())
Retain(peers, failing) == peers \ failing

\* try_recv that finds the channel disconnected, asked or not
TryRecvAlways(r) == r.senders = 0

\* The loop over try_recv ends with Disconnected: poll was given the
\* receiver and no sender is left.
TryRecvDisconnected(r) == r.supplied /\ r.senders = 0

\* The notifications of queue q are sent, in order, to the peers that are
\* left.  fails[i] are the peers to which the send of the i-th notification
\* fails.

RECURSIVE Broadcast(_, _, _, _)
Broadcast(peers, q, fails, log) ==
    IF q = <<>> THEN [peers |-> peers, log |-> log]
    ELSE LET left == Retain(peers, Head(fails))
         IN  Broadcast(left, Tail(q), Tail(fails),
                       Append(log, [note |-> Head(q), to |-> peers,
                                    failed |-> Head(fails) \cap peers,
                                    left |-> left]))

\* The waker's event: with a receiver, try_recv until the channel is Empty
\* or Disconnected; Disconnected ends poll with Error::Disconnected.
WakerEvent ==
    /\ status = "running"
    /\ events # <<>>
    /\ Head(events).token = WakerToken
    /\ \E fails \in [1..Len(reload.pending) -> SUBSET clients] :
         LET done == IF reload.supplied
                     THEN Broadcast(clients, reload.pending, fails, <<>>)
                     ELSE [peers |-> clients, log |-> <<>>]
             gone == TryRecvDisconnected(reload)
         IN  /\ ~reload.supplied => Len(reload.pending) = 0 \/
                                     \A i \in DOMAIN fails : fails[i] = {}
             /\ clients' = done.peers
             /\ reload' = IF reload.supplied
                          THEN [reload EXCEPT !.pending = <<>>]
                          ELSE reload
             /\ status' = IF gone THEN "disconnected" ELSE status
             /\ events' = IF gone THEN <<>> ELSE Tail(events)
             /\ lastTick' = [ran |-> TRUE, step |-> "waker",
                             supplied |-> reload.supplied,
                             senders |-> reload.senders,
                             pending |-> reload.pending,
                             peers |-> clients,
                             log |-> done.log,
                             result |-> IF gone THEN "Disconnected"
                                        ELSE "Ok"]
    /\ lastRead' = NoStep
    /\ lastWrite' = NoStep
    /\ UNCHANGED <<connections, registry, backlog, nextSock, net, budget,
                   sent, responded, monitorVars, managerVars, agentVars, middlewareVars>>

\* Server::poll(None): the loop without the reload channel.
NextServer ==
    \/ \E a \in Acceptors : Connect(a)
    \/ \E s \in Socks, b \in InBytes : ClientSend(s, b)
    \/ \E s \in Socks : ClientShutdown(s)
    \/ \E s \in Socks : ClientReset(s)
    \/ \E evs \in EventSeqs, dt \in Advance : Poll(evs, dt)
    \/ AcceptorEvent
    \/ ConnectionEvent
    \/ StaleEvent

\* The loop with the reload channel and the threads that use it; the clock
\* stands still and the peers keep their side of the sockets open (a send
\* to a peer may fail all the same).
NextReload ==
    \/ \E a \in Acceptors : Connect(a)
    \/ \E s \in Socks, b \in InBytes : ClientSend(s, b)
    \/ \E evs \in EventSeqs \ {<<>>} : Poll(evs, 0)
    \/ AcceptorEvent
    \/ ConnectionEvent
    \/ Notify
    \/ Wake
    \/ DropSender
    \/ WakerEvent


(***************************************************************************)
(* Paths.  A path is the sequence of its components; PathBuf compares and  *)
(* tests prefixes component by component.                                  *)
(***************************************************************************)
StartsWith(path, base) == IsPrefix(base, path)

RECURSIVE PathLess(_, _)
PathLess(p, q) ==
    IF p = <<>> THEN q # <<>>
    ELSE IF q = <<>> THEN FALSE
    ELSE IF Head(p) = Head(q) THEN PathLess(Tail(p), Tail(q))
    ELSE Head(p) < Head(q)

\* The paths of set S in the order of a BTreeMap<PathBuf, _>.
RECURSIVE Sorted(_)
Sorted(S) ==
    IF S = {} THEN <<>>
    ELSE LET least == CHOOSE p \in S : \A q \in S \ {p} : PathLess(p, q)
         IN  <<least>> \o Sorted(S \ {least})

RECURSIVE SeqsUpTo(_, _)
SeqsUpTo(S, n) ==
    IF n = 0 THEN {<<>>}
    ELSE LET shorter == SeqsUpTo(S, n - 1)
         IN  shorter \cup {Append(q, x) : q \in shorter, x \in S}

(***************************************************************************)
(* Monitor (agent/monitor.rs).                                             *)
(***************************************************************************)
\* the component "." of a path as given by the caller
Dot == 0

\* The roots a run watches: the folders of a tree in which only the folders
\* named 1 have subfolders.
MonRoots ==
    {p \in SeqsUpTo(1..MonNames, MonDepth) \ {<<>>} :
        \A i \in 1..(Len(p) - 1) : p[i] = 1}

\* The paths a caller hands in: a root, possibly written with a leading ".".
MonInputs == MonRoots \cup {<<Dot>> \o p : p \in MonRoots}

\* fs::canonicalize, for paths without symbolic links.
Canonicalize(path) == SelectSeq(path, LAMBDA c : c # Dot)

InitMonitor ==
    /\ monKind \in {"Kqueue", "Inotify"}
    /\ monPaths = <<>>
    /\ watching = {}
    /\ monFailed = FALSE
    /\ monFails = 0
    /\ monLast = [op |-> "none"]

\* A call watcher.unwatch(path) or watcher.watch(path) of the backend: it is
\* the (number of calls so far + 1)-th call, and fails if fails names it.
BackendCall(st, op, path, fails) ==
    LET k == Len(st.calls) + 1
        ok == k \notin fails
    IN  [st EXCEPT
            !.calls = Append(@, [op |-> op, path |-> path, ok |-> ok]),
            !.watching = IF ~ok THEN @
                         ELSE IF op = "watch" THEN @ \cup {path}
                         ELSE @ \ {path},
            !.err = IF ok \/ (op = "unwatch" /\ st.kind = "Kqueue")
                    THEN @ ELSE TRUE]

\* watched.filter(|prefix| current.starts_with(prefix)).is_some(), testing
\* the parent only.
CoveredByParent(watched, current) ==
    /\ watched # <<>>
    /\ StartsWith(current, watched)
    /\ Len(current) = Len(watched) + 1

\* watched.filter(|prefix| current.starts_with(prefix)).is_some(); no root
\* is the empty path, which stands for None.
Covered(watched, current) ==
    /\ watched # <<>>
    /\ StartsWith(current, watched)

\* a configure that watches a path as soon as it flags it active
WatchAtOnce(st, current, fails) ==
    BackendCall([st EXCEPT !.paths[current] = TRUE], "watch", current,
                fails)

\* *active = true; defer.push(current): the watch is put off until the
\* loop over the paths is done
Defer(st, current, fails) ==
    [st EXCEPT !.paths[current] = TRUE, !.defer = Append(@, current)]

\* The first loop of Monitor::configure over the sorted paths.
RECURSIVE ConfigureLoop(_, _, _, _)
ConfigureLoop(st, todo, watched, fails) ==
    IF todo = <<>> \/ st.err THEN st
    ELSE LET current == Head(todo)
         IN  IF Covered(watched, current)
             THEN IF st.paths[current]
                  THEN ConfigureLoop(
                           BackendCall(
                               [st EXCEPT !.paths[current] = FALSE],
                               "unwatch", current, fails),
                           Tail(todo), watched, fails)
                  ELSE ConfigureLoop(st, Tail(todo), watched, fails)
             ELSE IF ~st.paths[current]
                  THEN ConfigureLoop(Defer(st, current, fails),
                                     Tail(todo), current, fails)
                  ELSE ConfigureLoop(st, Tail(todo), current, fails)

\* The second loop of Monitor::configure: watch the deferred paths.
RECURSIVE WatchDeferred(_, _, _)
WatchDeferred(st, defer, fails) ==
    IF defer = <<>> \/ st.err THEN st
    ELSE WatchDeferred(BackendCall(st, "watch", Head(defer), fails),
                       Tail(defer), fails)

\* Monitor::configure; the result is Ok(!empty) unless st.err.
Configure(st, fails) ==
    LET looped == ConfigureLoop([st EXCEPT !.defer = <<>>],
                                Sorted(DOMAIN st.paths), <<>>, fails)
        done == WatchDeferred(looped, looped.defer, fails)
    IN  [done EXCEPT !.changed = (looped.defer # <<>>)]

MonState ==
    [paths |-> monPaths, watching |-> watching, kind |-> monKind,
     calls |-> <<>>, defer |-> <<>>, err |-> FALSE, changed |-> FALSE]

Insert(f, key, val) ==
    [k \in DOMAIN f \cup {key} |-> IF k = key THEN val ELSE f[k]]

Remove(f, key) == [k \in DOMAIN f \ {key} |-> f[k]]

\* the monitor after a call that ends in state st
MonApply(op, st) ==
    /\ monPaths' = st.paths
    /\ watching' = st.watching
    /\ monFailed' = (monFailed \/ st.err)
    /\ monLast' = [op |-> op,
                   result |-> IF st.err THEN "Err"
                              ELSE IF st.changed THEN "Ok(true)"
                              ELSE "Ok(false)",
                   calls |-> st.calls]
    /\ monFails' = monFails +
                      Cardinality({k \in 1..Len(st.calls) : ~st.calls[k].ok})
    /\ monFails' <= MaxFail
    /\ UNCHANGED monKind

MonReturn(op, st) ==
    /\ MonApply(op, st)
    /\ UNCHANGED <<serverVars, managerVars, agentVars, middlewareVars>>

\* The state Monitor::watch(input) ends in; exists tells whether
\* fs::canonicalize succeeds.
WatchState(input, exists, fails) ==
    LET path == Canonicalize(input)
    IN  IF ~exists
        THEN [MonState EXCEPT !.err = TRUE]
        ELSE IF path \notin DOMAIN monPaths
        THEN Configure([MonState EXCEPT
                           !.paths = Insert(monPaths, path, FALSE)],
                       fails)
        ELSE MonState

\* a run records no more than MaxRoots roots
CanWatch(input, exists) ==
    (exists /\ Canonicalize(input) \notin DOMAIN monPaths)
        => Cardinality(DOMAIN monPaths) < MaxRoots

\* Monitor::watch(input)
MonitorWatch(input, exists, fails) ==
    /\ CanWatch(input, exists)
    /\ MonReturn("watch", WatchState(input, exists, fails))

\* The state Monitor::unwatch(input) ends in.
UnwatchState(input, exists, fails) ==
    LET path == Canonicalize(input)
        active == IF path \in DOMAIN monPaths THEN monPaths[path] ELSE FALSE
        removed == [MonState EXCEPT
                       !.paths = IF path \in DOMAIN monPaths
                                 THEN Remove(monPaths, path) ELSE monPaths]
    IN  IF ~exists
        THEN [MonState EXCEPT !.err = TRUE]
        ELSE IF active
        THEN LET st == BackendCall(removed, "unwatch", path, fails)
             IN  IF st.err THEN st ELSE Configure(st, fails)
        ELSE removed

\* Monitor::unwatch(input)
MonitorUnwatch(input, exists, fails) ==
    MonReturn("unwatch", UnwatchState(input, exists, fails))

\* the backend calls of one call of the monitor that fail: none, or the k-th
FailSets == {{}} \cup {{k} : k \in 1..MaxRoots}

NextMonitor ==
    \/ \E input \in MonInputs, fails \in FailSets :
          MonitorWatch(input, TRUE, fails)
    \/ \E input \in MonInputs : MonitorWatch(input, FALSE, {})
    \/ \E input \in MonInputs, fails \in FailSets :
          MonitorUnwatch(input, TRUE, fails)
    \/ \E input \in MonInputs : MonitorUnwatch(input, FALSE, {})

\* The monitor before it is used.
IdleMonitor ==
    /\ monKind = "Inotify"
    /\ monPaths = <<>>
    /\ watching = {}
    /\ monFailed = FALSE
    /\ monFails = 0
    /\ monLast = [op |-> "none"]

(***************************************************************************)
(* The file system, as the manager reads it: symlink_metadata, read_link,  *)
(* canonicalize and the directory walk.  Only folders whose names are all  *)
(* the first name have entries; the targets of links are absolute paths    *)
(* of such folders.                                                        *)
(***************************************************************************)
Names == 1..FsNames

FsPaths ==
    {p \in SeqsUpTo(Names, FsDepth) \ {<<>>} :
        \A i \in 1..(Len(p) - 1) : p[i] = 1}

LinkTargets ==
    {p \in FsPaths : Len(p) < FsDepth /\ \A i \in 1..Len(p) : p[i] = 1}

FileIds == 1..MaxIds

NoPath == <<-1>>

NoId == 0

Parent(p) == SubSeq(p, 1, Len(p) - 1)

StripPrefix(path, base) == SubSeq(path, Len(base) + 1, Len(path))

Reverse(s) == [i \in 1..Len(s) |-> s[Len(s) + 1 - i]]

\* The entry a path names: links in the middle of the path are followed,
\* the last component only when final is set.
RECURSIVE Resolve(_, _, _, _, _)
Resolve(tree, cur, rest, final, hops) ==
    IF rest = <<>> THEN cur
    ELSE LET next == Append(cur, Head(rest))
             link == /\ next \in DOMAIN tree
                     /\ tree[next].type = "symlink"
                     /\ (Tail(rest) # <<>> \/ final)
             stop == \/ next \notin DOMAIN tree
                     \/ link /\ hops = 0
                     \/ ~link /\ Tail(rest) # <<>> /\ tree[next].type # "dir"
         IN  IF stop THEN NoPath
             ELSE Resolve(tree,
                          IF link THEN <<>> ELSE next,
                          IF link THEN tree[next].target \o Tail(rest)
                          ELSE Tail(rest),
                          final,
                          IF link THEN hops - 1 ELSE hops)

\* get_file_id: the identifier of the entry itself, a link is not followed
GetFileId(tree, path) ==
    LET real == Resolve(tree, <<>>, path, FALSE, MaxHops)
    IN  IF real = NoPath THEN NoId ELSE tree[real].id

\* fs::canonicalize
FsCanonicalize(tree, path) == Resolve(tree, <<>>, path, TRUE, MaxHops)

\* fs::read_link
ReadLink(tree, path) ==
    LET real == Resolve(tree, <<>>, path, FALSE, MaxHops)
    IN  IF real # NoPath /\ tree[real].type = "symlink"
        THEN tree[real].target ELSE NoPath

\* Path::join: an absolute path replaces the base
Join(base, path) == path

\* Kind::from(FileType)
KindFrom(type) ==
    IF type = "dir" THEN "Folder"
    ELSE IF type = "symlink" THEN "Link"
    ELSE "File"

ChildNames(tree, real) == {n \in Names : Append(real, n) \in DOMAIN tree}

\* the order in which a folder lists its entries: up or down the names
RECURSIVE NameSeq(_, _)
NameSeq(S, rev) ==
    IF S = {} THEN <<>>
    ELSE LET n == IF rev THEN CHOOSE x \in S : \A y \in S : y <= x
                  ELSE CHOOSE x \in S : \A y \in S : x <= y
         IN  <<n>> \o NameSeq(S \ {n}, rev)

RECURSIVE WalkEntry(_, _, _, _)
RECURSIVE WalkChildren(_, _, _, _, _)
WalkEntry(tree, real, shown, rev) ==
    <<[path |-> shown, type |-> tree[real].type]>> \o
    (IF tree[real].type = "dir"
     THEN WalkChildren(tree, real, shown,
                       NameSeq(ChildNames(tree, real), rev), rev)
     ELSE <<>>)

WalkChildren(tree, real, shown, names, rev) ==
    IF names = <<>> THEN <<>>
    ELSE WalkEntry(tree, Append(real, Head(names)),
                   Append(shown, Head(names)), rev)
         \o WalkChildren(tree, real, shown, Tail(names), rev)

\* walk(root): the root, then the entries below it, a folder before its
\* contents; links are not followed
Walk(tree, root, rev) ==
    LET real == Resolve(tree, <<>>, root, FALSE, MaxHops)
    IN  IF real = NoPath THEN <<[path |-> root, type |-> "error"]>>
        ELSE WalkEntry(tree, real, root, rev)

(***************************************************************************)
(* Events (agent/event.rs) and results.                                    *)
(***************************************************************************)
EventCreate(kind, path) ==
    [type |-> "Create", kind |-> kind, path |-> path, from |-> <<>>]

EventModify(kind, path) ==
    [type |-> "Modify", kind |-> kind, path |-> path, from |-> <<>>]

EventRename(kind, from, to) ==
    [type |-> "Rename", kind |-> kind, path |-> to, from |-> from]

EventRemove(kind, path) ==
    [type |-> "Remove", kind |-> kind, path |-> path, from |-> <<>>]

ErrorResult(path) ==
    [type |-> "Error", kind |-> "None", path |-> path, from |-> <<>>]

\* Event::path
EventPath(event) == event.path

(***************************************************************************)
(* Manager (agent/manager.rs).                                             *)
(***************************************************************************)
NewManager == [paths |-> <<>>, ids |-> <<>>, links |-> <<>>]

\* one entry of the walk in handle_create
CreateEntry(tree, mgr, entry) ==
    LET id == GetFileId(tree, entry.path)
        kind == KindFrom(entry.type)
    IN  IF entry.type = "error"
        THEN [mgr |-> mgr, out |-> <<ErrorResult(entry.path)>>]
        ELSE IF entry.path \in DOMAIN mgr.paths
        THEN [mgr |-> mgr, out |-> <<>>]
        ELSE IF id = NoId
        THEN [mgr |-> mgr, out |-> <<ErrorResult(entry.path)>>]
        ELSE [mgr |-> [mgr EXCEPT
                          !.paths = Insert(@, entry.path,
                                           [id |-> id, kind |-> kind]),
                          !.ids = Insert(@, id, entry.path)],
              out |-> <<EventCreate(kind, entry.path)>>]

RECURSIVE CreateEntries(_, _, _, _)
CreateEntries(tree, mgr, entries, out) ==
    IF entries = <<>> THEN [mgr |-> mgr, out |-> out]
    ELSE LET done == CreateEntry(tree, mgr, Head(entries))
         IN  CreateEntries(tree, done.mgr, Tail(entries), out \o done.out)

HandleCreate(tree, mgr, root, rev) ==
    CreateEntries(tree, mgr, Walk(tree, root, rev), <<>>)

HandleModify(mgr, root) ==
    IF root \notin DOMAIN mgr.paths THEN <<>>
    ELSE LET stat == mgr.paths[root]
         IN  IF stat.kind = "Folder" \/ stat.id \notin DOMAIN mgr.ids
             THEN <<>>
             ELSE <<EventModify(stat.kind, mgr.ids[stat.id])>>

\* one entry of the walk in handle_rename
RenameEntry(tree, mgr, entry) ==
    LET id == GetFileId(tree, entry.path)
    IN  IF entry.type = "error" \/ id = NoId
        THEN [mgr |-> mgr, out |-> <<ErrorResult(entry.path)>>]
        ELSE IF id \in DOMAIN mgr.ids /\ mgr.ids[id] \in DOMAIN mgr.paths
        THEN LET from == mgr.ids[id]
                 stat == mgr.paths[from]
                 moved == Insert(Remove(mgr.paths, from), entry.path, stat)
             IN  IF entry.path = from
                 THEN [mgr |-> [mgr EXCEPT !.paths = moved], out |-> <<>>]
                 ELSE [mgr |-> [mgr EXCEPT
                                   !.paths = moved,
                                   !.ids = Insert(@, id, entry.path)],
                       out |-> <<EventRename(stat.kind, from, entry.path)>>]
        ELSE [mgr |-> mgr, out |-> <<>>]

RECURSIVE RenameEntries(_, _, _, _)
RenameEntries(tree, mgr, entries, out) ==
    IF entries = <<>> THEN [mgr |-> mgr, out |-> out]
    ELSE LET done == RenameEntry(tree, mgr, Head(entries))
         IN  RenameEntries(tree, done.mgr, Tail(entries), out \o done.out)

HandleRename(tree, mgr, root, rev) ==
    RenameEntries(tree, mgr, Walk(tree, root, rev), <<>>)

\* BTreeMap::range(root..) over the keys of a map
RangeFrom(map, root) ==
    Sorted({p \in DOMAIN map : p = root \/ PathLess(root, p)})

\* a name as its characters, and a path as the characters of its string
RECURSIVE PathChars(_)
PathChars(path) ==
    IF path = <<>> THEN <<>>
    ELSE <<0>> \o [i \in 1..Head(path) |-> 1] \o PathChars(Tail(path))

RemoveStartsWithChars(path, root) ==
    IsPrefix(PathChars(root), PathChars(path))

\* Path::starts_with in handle_remove
RemoveStartsWith(path, root) == StartsWith(path, root)

RECURSIVE RemoveCollect(_, _)
RemoveCollect(seq, root) ==
    IF seq = <<>> \/ ~RemoveStartsWith(Head(seq), root) THEN <<>>
    ELSE <<Head(seq)>> \o RemoveCollect(Tail(seq), root)

\* one collected path in handle_remove
RemoveEntry(mgr, path) ==
    IF path \notin DOMAIN mgr.paths THEN [mgr |-> mgr, out |-> <<>>]
    ELSE LET stat == mgr.paths[path]
             less == [mgr EXCEPT !.paths = Remove(@, path)]
         IN  IF stat.id \in DOMAIN mgr.ids
             THEN [mgr |-> [less EXCEPT !.ids = Remove(@, stat.id)],
                   out |-> <<EventRemove(stat.kind, mgr.ids[stat.id])>>]
             ELSE [mgr |-> less, out |-> <<>>]

RECURSIVE RemoveEntries(_, _, _)
RemoveEntries(mgr, todo, out) ==
    IF todo = <<>> THEN [mgr |-> mgr, out |-> out]
    ELSE LET done == RemoveEntry(mgr, Head(todo))
         IN  RemoveEntries(done.mgr, Tail(todo), out \o done.out)

HandleRemove(mgr, root) ==
    RemoveEntries(mgr,
                  Reverse(RemoveCollect(RangeFrom(mgr.paths, root), root)),
                  <<>>)

\* the first key of links, in the order of the map, that satisfies a test
FirstKey(keys) == IF keys = {} THEN NoPath ELSE Head(Sorted(keys))

\* the event spread to the link root, for an event below the target head
SpreadTo(event, head, tail, root) ==
    LET path == root \o tail
    IN  IF event.type = "Create" THEN EventCreate(event.kind, path)
        ELSE IF event.type = "Modify" THEN EventModify(event.kind, path)
        ELSE IF event.type = "Remove" THEN EventRemove(event.kind, path)
        ELSE IF StartsWith(event.from, head)
        THEN EventRename(event.kind, root \o StripPrefix(event.from, head),
                         path)
        ELSE EventCreate(event.kind, path)

\* the target spread() selects: find_map stops at the first target that is
\* a prefix of the path
SpreadSelect(links, root) ==
    FirstKey({t \in DOMAIN links : StartsWith(root, t)})

RECURSIVE Spread(_, _)
Spread(mgr, event) ==
    LET root == EventPath(event)
        head == SpreadSelect(mgr.links, root)
        iter == IF head = NoPath THEN <<>>
                ELSE [i \in 1..Len(mgr.links[head]) |->
                         SpreadTo(event, head, StripPrefix(root, head),
                                  mgr.links[head][i])]
    IN  IF event.type = "Rename" /\ iter = <<>>
        THEN <<event>> \o
             Tail(Spread(mgr, EventRemove(event.kind, event.from)))
        ELSE <<event>> \o iter

\* the entries of paths expand() enumerates below head: range(head..),
\* skip(1), then scan while strip_prefix succeeds
RECURSIVE ExpandScan(_, _)
ExpandScan(seq, head) ==
    IF seq = <<>> \/ ~StartsWith(Head(seq), head) THEN <<>>
    ELSE <<Head(seq)>> \o ExpandScan(Tail(seq), head)

ExpandEvent(tree, event, root, next, kind, tail) ==
    LET path == root \o tail
    IN  IF event.type = "Create" THEN <<EventCreate(kind, path)>>
        ELSE IF event.type = "Modify" THEN <<EventModify(kind, path)>>
        ELSE IF event.type = "Remove" THEN <<EventRemove(kind, path)>>
        ELSE LET up == Parent(event.from)
                 from == event.from \o tail
                 link == ReadLink(tree, root)
                 prev == /\ link # NoPath
                         /\ FsCanonicalize(tree, Join(up, link)) # NoPath
             IN  IF prev /\ next THEN <<EventRename(kind, from, path)>>
                 ELSE IF prev THEN <<EventRemove(kind, from)>>
                 ELSE IF next THEN <<EventCreate(kind, path)>>
                 ELSE <<>>

RECURSIVE ExpandAll(_, _, _, _, _, _, _)
ExpandAll(tree, mgr, event, root, next, head, inner) ==
    IF inner = <<>> THEN <<>>
    ELSE ExpandEvent(tree, event, root, next, mgr.paths[Head(inner)].kind,
                     StripPrefix(Head(inner), head))
         \o ExpandAll(tree, mgr, event, root, next, head, Tail(inner))

Expand(tree, mgr, event) ==
    LET root == EventPath(event)
        broken == /\ event.type # "Remove"
                  /\ FsCanonicalize(tree, root) = NoPath
        head == FirstKey({t \in DOMAIN mgr.links :
                             root \in Range(mgr.links[t])})
        inner == IF head = NoPath THEN <<>>
                 ELSE ExpandScan(Drop(RangeFrom(mgr.paths, head), 1), head)
    IN  (IF broken THEN <<ErrorResult(root)>> ELSE <<>>)
        \o ExpandAll(tree, mgr, event, root, ~broken, head, inner)

\* links.entry(to).or_default(), then push unless contained
LinkTo(links, to, path) ==
    IF to \notin DOMAIN links THEN Insert(links, to, <<path>>)
    ELSE IF path \in Range(links[to]) THEN links
    ELSE [links EXCEPT ![to] = Append(@, path)]

\* the first list, in the order of the map, that holds from: its first
\* occurrence is replaced
RenameLink(links, from, path) ==
    LET t == FirstKey({k \in DOMAIN links : from \in Range(links[k])})
        i == CHOOSE i \in 1..Len(links[t]) :
                /\ links[t][i] = from
                /\ \A j \in 1..(i - 1) : links[t][j] # from
    IN  [links EXCEPT ![t][i] = path]

\* links.retain: drop the link from every list, and the lists left empty
PurgeLink(links, path) ==
    LET kept == [t \in DOMAIN links |->
                    SelectSeq(links[t], LAMBDA check : check # path)]
    IN  [t \in {k \in DOMAIN links : kept[k] # <<>>} |-> kept[t]]

Follow(tree, mgr, event) ==
    LET path == EventPath(event)
        to == FsCanonicalize(tree, path)
        res == IF to = NoPath THEN ErrorResult(path) ELSE event
        linked == IF to = NoPath THEN mgr
                  ELSE [mgr EXCEPT !.links = LinkTo(@, to, path)]
    IN  IF event.type = "Create"
        THEN [mgr |-> linked, out |-> <<res>> \o Expand(tree, linked, event)]
        ELSE IF event.type = "Modify"
        THEN [mgr |-> mgr, out |-> <<>>]
        ELSE IF event.type = "Rename"
        THEN IF \E k \in DOMAIN mgr.links : event.from \in Range(mgr.links[k])
             THEN LET done == [mgr EXCEPT
                                  !.links = RenameLink(@, event.from, path)]
                  IN  [mgr |-> done,
                       out |-> <<event>> \o Expand(tree, done, event)]
             ELSE [mgr |-> linked,
                   out |-> <<res>> \o Expand(tree, linked, event)]
        ELSE [mgr |-> [mgr EXCEPT !.links = PurgeLink(@, path)],
              out |-> Append(Reverse(Expand(tree, mgr, event)), event)]

\* only unique paths are kept, in the order of their first occurrence
RECURSIVE Once(_, _)
Once(paths, seen) ==
    IF paths = <<>> THEN <<>>
    ELSE (IF Head(paths) \in seen THEN <<>> ELSE <<Head(paths)>>)
         \o Once(Tail(paths), seen \cup {Head(paths)})

\* changes.entry(id): a vacant entry takes the path; an occupied one is
\* replaced unless it holds the canonical form of the path
Change(tree, changes, path) ==
    LET id == GetFileId(tree, path)
        to == FsCanonicalize(tree, path)
    IN  IF id \notin DOMAIN changes THEN Insert(changes, id, path)
        ELSE IF to # NoPath /\ changes[id] # to
        THEN Insert(changes, id, path)
        ELSE changes

\* 1st pass: existing paths go to changes, keyed by their file identifier
RECURSIVE Pass1(_, _, _, _)
Pass1(tree, todo, changes, rest) ==
    IF todo = <<>> THEN [changes |-> changes, rest |-> rest]
    ELSE LET path == Head(todo)
             gone == GetFileId(tree, path) = NoId
         IN  Pass1(tree, Tail(todo),
                   IF gone THEN changes ELSE Change(tree, changes, path),
                   IF gone THEN Append(rest, path) ELSE rest)

\* 2nd pass: a missing path whose identifier is among the changes is a
\* rename
RECURSIVE Pass2(_, _, _, _, _, _, _)
Pass2(tree, mgr, todo, changes, rest, out, rev) ==
    IF todo = <<>>
    THEN [mgr |-> mgr, changes |-> changes, rest |-> rest, out |-> out]
    ELSE LET path == Head(todo)
             renamed == /\ path \in DOMAIN mgr.paths
                        /\ mgr.paths[path].id \in DOMAIN changes
             id == mgr.paths[path].id
             done == IF renamed
                     THEN HandleRename(tree, mgr, changes[id], rev)
                     ELSE [mgr |-> mgr, out |-> <<>>]
         IN  Pass2(tree, done.mgr, Tail(todo),
                   IF renamed THEN Remove(changes, id) ELSE changes,
                   IF renamed THEN rest ELSE Append(rest, path),
                   out \o done.out, rev)

\* BTreeMap::into_values: the values in the order of the keys
RECURSIVE IntoValues(_)
IntoValues(changes) ==
    IF DOMAIN changes = {} THEN <<>>
    ELSE LET id == CHOOSE x \in DOMAIN changes :
                      \A y \in DOMAIN changes : x <= y
         IN  <<changes[id]>> \o IntoValues(Remove(changes, id))

\* the remaining changes are creations or modifications
RECURSIVE Pass3(_, _, _, _, _)
Pass3(tree, mgr, todo, out, rev) ==
    IF todo = <<>> THEN [mgr |-> mgr, out |-> out]
    ELSE LET done == IF Head(todo) \in DOMAIN mgr.paths
                     THEN [mgr |-> mgr,
                           out |-> HandleModify(mgr, Head(todo))]
                     ELSE HandleCreate(tree, mgr, Head(todo), rev)
         IN  Pass3(tree, done.mgr, Tail(todo), out \o done.out, rev)

\* the remaining paths are removals, if they were seen before
RECURSIVE Pass4(_, _, _)
Pass4(mgr, todo, out) ==
    IF todo = <<>> THEN [mgr |-> mgr, out |-> out]
    ELSE LET done == IF Head(todo) \in DOMAIN mgr.paths
                     THEN HandleRemove(mgr, Head(todo))
                     ELSE [mgr |-> mgr, out |-> <<>>]
         IN  Pass4(done.mgr, Tail(todo), out \o done.out)

RECURSIVE SpreadAll(_, _)
SpreadAll(mgr, results) ==
    IF results = <<>> THEN <<>>
    ELSE LET result == Head(results)
         IN  (IF result.type # "Error" /\ result.kind # "Link"
              THEN Spread(mgr, result) ELSE <<result>>)
             \o SpreadAll(mgr, Tail(results))

RECURSIVE FollowAll(_, _, _, _)
FollowAll(tree, mgr, results, out) ==
    IF results = <<>> THEN [mgr |-> mgr, out |-> out]
    ELSE LET result == Head(results)
             done == IF result.type # "Error" /\ result.kind = "Link"
                     THEN Follow(tree, mgr, result)
                     ELSE [mgr |-> mgr, out |-> <<result>>]
         IN  FollowAll(tree, done.mgr, Tail(results), out \o done.out)

\* 5th and 6th pass: the results are spread over the links, then the
\* events of links are followed
Passes56(tree, p4) ==
    FollowAll(tree, p4.mgr,
              IF DOMAIN p4.mgr.links # {} THEN SpreadAll(p4.mgr, p4.out)
              ELSE p4.out,
              <<>>)

\* creations and modifications, then removals
Passes34(tree, p2, p3) == Passes56(tree, Pass4(p3.mgr, p2.rest, p3.out))

Passes3456(tree, p2, rev) ==
    Passes34(tree, p2,
             Pass3(tree, p2.mgr, IntoValues(p2.changes), p2.out, rev))

Passes23456(tree, mgr, p1, rev) ==
    Passes3456(tree,
               Pass2(tree, mgr, p1.rest, p1.changes, <<>>, <<>>, rev), rev)

\* Manager::handle(paths): the manager after the call, and the results
Handle(tree, mgr, batch, rev) ==
    Passes23456(tree, mgr, Pass1(tree, Once(batch, {}), <<>>, <<>>), rev)

(***************************************************************************)
(* The file system under the manager, and the changes made to it between   *)
(* two calls.  A new entry gets the least identifier that neither the file *)
(* system nor the manager holds.                                           *)
(***************************************************************************)
File(id) == [id |-> id, type |-> "file", target |-> <<>>]

Dir(id) == [id |-> id, type |-> "dir", target |-> <<>>]

Symlink(id, target) == [id |-> id, type |-> "symlink", target |-> target]

EmptyTree == <<>>

\* a folder with a folder, two files and, next to it, a link to it
ProjectTree ==
    (<<1>> :> Dir(3)) @@ (<<1, 1>> :> Dir(2)) @@ (<<1, 1, 1>> :> File(1))
    @@ (<<1, 2>> :> File(4)) @@ (<<2>> :> Symlink(5, <<1>>))

InitialTrees == {ProjectTree}

Below(tree, p) == {r \in DOMAIN tree : StartsWith(r, p)}

CanHold(tree, p) ==
    /\ p \in FsPaths
    /\ Len(p) > 1 => /\ Parent(p) \in DOMAIN tree
                     /\ tree[Parent(p)].type = "dir"

\* entries with the first name are folders, and files at the deepest level;
\* entries with another name are files or links
CanBe(p, type) ==
    IF p[Len(p)] # 1 THEN type # "dir"
    ELSE IF Len(p) = FsDepth THEN type = "file"
    ELSE type = "dir"

UsedIds(tree, mgr) ==
    {tree[p].id : p \in DOMAIN tree} \cup DOMAIN mgr.ids
    \cup {mgr.paths[p].id : p \in DOMAIN mgr.paths}

FreshIds(tree, mgr) ==
    LET free == FileIds \ UsedIds(tree, mgr)
    IN  {id \in free : \A other \in free : id <= other}

NotHandled == [ran |-> FALSE]

\* The file system changes, and the monitor reports the paths of the change
\* to the handler, which adds them to its queue (Handler::handle, the arm
\* of the monitor).
Changed(tree, paths) ==
    /\ handled.ran = FALSE
    /\ fsOps < MaxFsOps
    /\ Len(queue) + Len(paths) <= MaxBatch
    /\ fs' = tree
    /\ queue' = queue \o paths
    /\ fsOps' = fsOps + 1
    /\ UNCHANGED <<manager, handled, serverVars, monitorVars, agentVars, middlewareVars>>

\* a file, a folder or a link is created
FsCreate(p, entry) ==
    /\ p \notin DOMAIN fs
    /\ CanHold(fs, p)
    /\ CanBe(p, entry.type)
    /\ Changed(Insert(fs, p, entry), <<p>>)

\* an entry is removed, with all that is below it
FsRemove(p) ==
    /\ p \in DOMAIN fs
    /\ Changed([r \in DOMAIN fs \ Below(fs, p) |-> fs[r]], <<p>>)

\* rename(2): q is replaced if it is there
FsRename(p, q) ==
    LET moved == {q \o StripPrefix(r, p) : r \in Below(fs, p)}
        kept == DOMAIN fs \ (Below(fs, p) \cup Below(fs, q))
    IN  /\ p \in DOMAIN fs
        /\ ~StartsWith(q, p)
        /\ CanHold(fs, q)
        /\ moved \subseteq FsPaths
        /\ CanBe(q, fs[p].type)
        /\ q \in DOMAIN fs =>
              /\ fs[q].id # fs[p].id
              /\ (fs[p].type = "dir") = (fs[q].type = "dir")
              /\ Below(fs, q) = {q}
        /\ Changed([r \in kept \cup moved |->
                       IF r \in moved THEN fs[p \o StripPrefix(r, q)]
                       ELSE fs[r]],
                   <<p, q>>)

\* link(2): a second name for a file
FsHardLink(p, q) ==
    /\ p \in DOMAIN fs
    /\ fs[p].type = "file"
    /\ q \notin DOMAIN fs
    /\ CanHold(fs, q)
    /\ CanBe(q, "file")
    /\ Changed(Insert(fs, q, fs[p]), <<q>>)

\* Handler::handle, the arm of the commands: Action::Watch(path) and
\* Action::Unwatch(path) add the path to the queue when the monitor, which
\* canonicalizes the path, returns Ok.  The owner of the agent names the
\* paths before the file system changes.
Command(p) ==
    /\ handled.ran = FALSE
    /\ FsCanonicalize(fs, p) # NoPath
    /\ fsOps = 0
    /\ Len(queue) < MaxBatch
    /\ queue' = Append(queue, p)
    /\ UNCHANGED <<fs, manager, handled, fsOps, serverVars, monitorVars, agentVars, middlewareVars>>

\* Handler::handle, the arm of the timeout: the queue is taken and given to
\* Manager::handle
Timeout(rev) ==
    LET done == Handle(fs, manager, queue, rev)
    IN  /\ handled.ran = FALSE
        /\ queue # <<>>
        /\ manager' = done.mgr
        /\ queue' = <<>>
        /\ handled' = [ran |-> TRUE, batch |-> queue, before |-> manager,
                       results |-> done.out]
        /\ UNCHANGED <<fs, fsOps, serverVars, monitorVars, agentVars, middlewareVars>>

\* the results are passed to the callback of the agent
Deliver ==
    /\ handled.ran = TRUE
    /\ handled' = NotHandled
    /\ UNCHANGED <<fs, manager, queue, fsOps, serverVars, monitorVars, agentVars, middlewareVars>>

NextManager ==
    \/ \E p \in FsPaths : Command(p)
    \/ \E rev \in BOOLEAN : Timeout(rev)
    \/ Deliver
    \/ \E p \in FsPaths, id \in FreshIds(fs, manager) :
          FsCreate(p, File(id))
    \/ \E p \in FsPaths, id \in FreshIds(fs, manager) :
          FsCreate(p, Dir(id))
    \/ \E p \in FsPaths, id \in FreshIds(fs, manager), t \in LinkTargets :
          FsCreate(p, Symlink(id, t))
    \/ \E p \in FsPaths : FsRemove(p)
    \/ \E p \in FsPaths, q \in FsPaths :
          FsRename(p, q)
    \/ \E p \in FsPaths, q \in FsPaths :
          FsHardLink(p, q)

\* The manager before it is used.
IdleManager ==
    /\ fs = EmptyTree
    /\ manager = NewManager
    /\ queue = <<>>
    /\ handled = NotHandled
    /\ fsOps = 0

InitManager ==
    /\ fs \in InitialTrees
    /\ manager = NewManager
    /\ queue = <<>>
    /\ handled = NotHandled
    /\ fsOps = 0

(***************************************************************************)
(* The agent (agent.rs, agent/handler.rs): the owner sends actions on the  *)
(* channel of the handler, the backend of the monitor sends its messages,  *)
(* and the agent's thread calls Handler::handle in a loop.  Each call      *)
(* selects one arm: the actions before the monitor's messages, and those   *)
(* before the timeout, which is there only while the queue holds paths.    *)
(***************************************************************************)
Actions == {"Watch", "Unwatch"}

\* the paths the owner watches: the project's folder
Watchable == {<<1>>}

\* the paths the owner names in a call: the project's folder, the link to
\* it, and a path that does not exist
Arguments == Watchable \cup {<<2>>, <<1, 3>>}

\* the Agent handle is held and no call has been made
Held == [held |-> TRUE, call |-> NoStep]

\* notify's EventKind, as far as filter tells the kinds apart
EventKinds == {"Create", "Modify", "Remove", "Access"}

\* the paths of one message of the backend
Reported == {<<<<1, 2>>>>, <<<<1, 1, 1>>, <<1, 2>>>>}

\* the messages of the backend: an event or an error
RawMessages ==
    [ok : {TRUE}, kind : EventKinds, paths : Reported] \cup
    {[ok |-> FALSE, kind |-> "Error", paths |-> <<>>]}

IdleAgent ==
    /\ channel = <<>>
    /\ rawq = <<>>
    /\ timer = "never"
    /\ agent = "running"
    /\ arrivals = 0
    /\ lastStep = NoStep
    /\ owner = Held

\* a call that fails only when the receiver is gone
CallOkRunning(canonical, running) == running

\* fs::canonicalize(path)? and then sender.send(..): the call fails when
\* the path cannot be canonicalized or the receiver is gone
CallOk(canonical, running) == canonical # NoPath /\ running

\* Agent::watch and Agent::unwatch: the path is canonicalized, then sent.
Send(op, path) ==
    /\ owner.held
    /\ arrivals < MaxArrivals
    /\ LET canonical == FsCanonicalize(fs, path)
           ok == CallOk(canonical, agent = "running")
       IN  /\ channel' = IF ok
                         THEN Append(channel,
                                     [op |-> op, path |-> canonical])
                         ELSE channel
           /\ owner' = [owner EXCEPT
                           !.call = [ran |-> TRUE, op |-> op,
                                     path |-> path,
                                     running |-> agent = "running",
                                     ok |-> ok]]
    /\ arrivals' = arrivals + 1
    /\ lastStep' = NoStep
    /\ UNCHANGED <<rawq, timer, agent, serverVars, middlewareVars, monitorVars, managerVars>>

\* The owner drops the Agent handle, and with it the only sender.
DropAgent ==
    /\ owner.held
    /\ owner' = [held |-> FALSE, call |-> NoStep]
    /\ lastStep' = NoStep
    /\ UNCHANGED <<channel, rawq, timer, agent, arrivals, serverVars, middlewareVars,
                   monitorVars, managerVars>>

\* The backend, which watches something, sends a message.
Report(msg) ==
    /\ agent = "running"
    /\ arrivals < MaxArrivals
    /\ watching # {}
    /\ rawq' = Append(rawq, msg)
    /\ arrivals' = arrivals + 1
    /\ lastStep' = NoStep
    /\ owner' = [owner EXCEPT !.call = NoStep]
    /\ UNCHANGED <<channel, timer, agent, serverVars, middlewareVars, monitorVars,
                   managerVars>>

\* The timeout passes while the select waits.
Expire ==
    /\ agent = "running"
    /\ timer = "armed"
    /\ timer' = "expired"
    /\ lastStep' = NoStep
    /\ owner' = [owner EXCEPT !.call = NoStep]
    /\ UNCHANGED <<channel, rawq, agent, arrivals, serverVars, middlewareVars, monitorVars,
                   managerVars>>

\* a receiver that is ready only when it holds a message
RecvReadyHolds(messages, senders) == messages # <<>>

\* recv(self.receiver): ready when the channel holds a message or has no
\* sender left
RecvReady(messages, senders) == messages # <<>> \/ ~senders

\* the arms of the select that are ready, in the order they are written
ReadyArms ==
    <<RecvReady(channel, owner.held), rawq # <<>>, timer = "expired">>

\* the select returns: the thread is running and an arm is ready
Selects == agent = "running" /\ \E i \in DOMAIN ReadyArms : ReadyArms[i]

\* a select that takes the last arm that is ready
SelectLast(ready) ==
    CHOOSE i \in DOMAIN ready :
        ready[i] /\ \A j \in DOMAIN ready : ready[j] => j <= i

\* select_biased!: the first arm that is ready
Select(ready) ==
    CHOOSE i \in DOMAIN ready :
        ready[i] /\ \A j \in DOMAIN ready : ready[j] => i <= j

\* a timeout that keeps running over the calls of Handler::handle
RearmKeep(paths, before) ==
    IF paths = <<>> THEN "never"
    ELSE IF before = "expired" THEN "expired" ELSE "armed"

\* wait = (!self.queue.is_empty()).then_some(timeout), and after(timeout)
\* of the next call of Handler::handle
Rearm(paths, before) == IF paths = <<>> THEN "never" ELSE "armed"

\* a filter that lets every kind pass
FilterAll(kind, paths) == paths

\* filter(event.kind, event.paths)
Filter(kind, paths) ==
    IF kind \in {"Create", "Modify", "Remove"} THEN paths ELSE <<>>

\* a loop that goes on after the callback has failed
ThreadGoesOn(failed) == "running"

\* loop { handler.handle(timeout)?; }
Thread(failed) == IF failed THEN "exited" ELSE "running"

\* for res in results { (self.handler)(res)?; } where the callback fails at
\* the k-th call, or not at all (k = 0)
Callbacks(results, k) ==
    [delivered |-> IF k = 0 THEN results ELSE SubSeq(results, 1, k),
     failed |-> k # 0]

\* One call of Handler::handle has taken the arm; the thread goes on with
\* the next call unless the callback has failed.
Handled(arm, paths, results, called) ==
    /\ queue' = paths
    /\ timer' = Rearm(paths, timer)
    /\ agent' = Thread(called.failed)
    /\ lastStep' = [ran |-> TRUE, arm |-> arm, channel |-> channel,
                    rawq |-> rawq, timer |-> timer, queue |-> queue,
                    before |-> manager, results |-> results,
                    held |-> owner.held,
                    delivered |-> called.delivered,
                    failed |-> called.failed]
    /\ owner' = [owner EXCEPT !.call = NoStep]
    /\ UNCHANGED <<arrivals, fs, handled, fsOps, serverVars, middlewareVars>>

\* The arm of the actions: the monitor watches or unwatches the path; the
\* path joins the queue if that succeeds, the callback gets the error if
\* not.
CommandArm(fails) ==
    /\ Selects
    /\ Select(ReadyArms) = 1
    /\ channel # <<>>
    /\ LET action == Head(channel)
           st == IF action.op = "Watch"
                 THEN WatchState(action.path, TRUE, fails)
                 ELSE UnwatchState(action.path, TRUE, fails)
           results == IF st.err THEN <<ErrorResult(action.path)>> ELSE <<>>
       IN  /\ action.op = "Watch" => CanWatch(action.path, TRUE)
           /\ MonApply(action.op, st)
           /\ channel' = Tail(channel)
           /\ \E k \in 0..Len(results) :
                 Handled("command",
                         IF st.err THEN queue
                         ELSE Append(queue, action.path),
                         results, Callbacks(results, k))
    /\ UNCHANGED <<rawq, manager>>

\* The arm of the monitor: the paths of an event that passes the filter
\* join the queue, the callback gets an error.
MonitorArm ==
    /\ Selects
    /\ Select(ReadyArms) = 2
    /\ LET msg == Head(rawq)
           results == IF msg.ok THEN <<>> ELSE <<ErrorResult(<<>>)>>
       IN  /\ rawq' = Tail(rawq)
           /\ \E k \in 0..Len(results) :
                 Handled("monitor",
                         IF msg.ok
                         THEN queue \o Filter(msg.kind, msg.paths)
                         ELSE queue,
                         results, Callbacks(results, k))
    /\ UNCHANGED <<channel, manager, monitorVars>>

\* The arm of the timeout: the queue is taken and given to Manager::handle,
\* and the callback gets the results one by one.
TimeoutArm(rev) ==
    /\ Selects
    /\ Select(ReadyArms) = 3
    /\ \E done \in {Handle(fs, manager, queue, rev)} :
          /\ manager' = done.mgr
          /\ \E k \in 0..Len(done.out) :
                Handled("timeout", <<>>, done.out, Callbacks(done.out, k))
    /\ UNCHANGED <<channel, rawq, monitorVars>>

\* The arm of the actions when the channel is empty and has no sender:
\* `message?` returns the error of recv, the callback is not called, and
\* the loop of the thread ends.
Disconnected ==
    /\ Selects
    /\ Select(ReadyArms) = 1
    /\ channel = <<>>
    /\ agent' = "exited"
    /\ lastStep' = [ran |-> TRUE, arm |-> "disconnected",
                    channel |-> channel, rawq |-> rawq, timer |-> timer,
                    queue |-> queue, before |-> manager, results |-> <<>>,
                    held |-> owner.held, delivered |-> <<>>,
                    failed |-> FALSE]
    /\ owner' = [owner EXCEPT !.call = NoStep]
    /\ UNCHANGED <<channel, rawq, timer, arrivals, monitorVars, managerVars,
                   serverVars, middlewareVars>>

\* The step of the timeout arm, told by what it does to the queue: no
\* other step of the agent empties the queue.
Flush == Selects /\ Select(ReadyArms) = 3 /\ queue' = <<>>

\* one call of Handler::handle
AgentStep ==
    \/ \E fails \in FailSets : CommandArm(fails)
    \/ Disconnected
    \/ MonitorArm
    \/ \E rev \in BOOLEAN : TimeoutArm(rev)

NextAgent ==
    \/ \E op \in Actions, path \in Arguments : Send(op, path)
    \/ DropAgent
    \/ \E msg \in RawMessages : Report(msg)
    \/ Expire
    \/ AgentStep

(***************************************************************************)
(* The middlewares (handler/stack.rs, router.rs, middleware/*.rs): each    *)
(* is a function of the request and of the handler that comes next.  A     *)
(* path, a route and a header value are sequences of characters.           *)
(***************************************************************************)
NoCall == [mw |-> "none", ran |-> FALSE]

IdleMiddleware == call = NoCall

\* ---- strings ----
Chars == {"/", "a", "b"}

\* the request paths: they begin with a slash
ReqPaths ==
    {p \in SeqsUpTo(Chars, MaxPath) : p # <<>> /\ Head(p) = "/"}

\* str::trim_end_matches(c)
RECURSIVE TrimEndMatches(_, _)
TrimEndMatches(s, c) ==
    IF s # <<>> /\ s[Len(s)] = c
    THEN TrimEndMatches(SubSeq(s, 1, Len(s) - 1), c)
    ELSE s

\* ---- routes and the matcher (handler/matcher.rs over matchit) ----
\* a route is a path that may hold a parameter {p} in the place of a
\* segment and may end in the catch-all {*rest}
Param == "{p}"

CatchAll == "{*rest}"

Root == <<"/">>

NoRoute == <<>>

\* the characters of a path up to its next slash
RECURSIVE Segment(_)
Segment(path) ==
    IF path = <<>> \/ Head(path) = "/" THEN <<>>
    ELSE <<Head(path)>> \o Segment(Tail(path))

\* matchit's Router::at for a router with the one route: a parameter takes
\* one segment, the catch-all takes the rest of the path, and neither
\* takes the empty string
RECURSIVE At(_, _)
At(route, path) ==
    IF route = <<>> THEN path = <<>>
    ELSE IF Head(route) = CatchAll THEN path # <<>>
    ELSE IF Head(route) = Param
    THEN /\ Segment(path) # <<>>
         /\ At(Tail(route), Drop(path, Len(Segment(path))))
    ELSE /\ path # <<>>
         /\ Head(path) = Head(route)
         /\ At(Tail(route), Tail(path))

\* Route::append
RouteAppend(head, tail) ==
    IF head = Root THEN tail
    ELSE IF tail = Root THEN head
    ELSE head \o tail

\* Scope::join; NoRoute stands for None
ScopeJoin(scope, route) ==
    IF scope = NoRoute THEN route
    ELSE IF route = NoRoute THEN scope
    ELSE RouteAppend(scope, route)

\* ---- requests, responses and handlers ----
Request(method, path) ==
    [method |-> method, path |-> path, query |-> <<>>, headers |-> <<>>]

\* the handlers a middleware is given as next: the terminator of a stack,
\* and a handler that answers every request with 200; both are known by
\* the number they leave in the trace of a call
NotFoundHandler == 0

OkHandler == 9

\* Handler::handle of the two; the response tells which request was seen
HandlerHandle(next, req) ==
    [status |-> IF next = NotFoundHandler THEN NotFound ELSE Ok,
     seen |-> req]

\* ---- Stack (handler/stack.rs, handler/stack/builder.rs) ----
\* what a middleware of a stack does with its next handler: it answers
\* by itself, or calls next once, or calls next twice
Behaviours == {"answer", "forward", "twice"}

\* the stacks: their middlewares are numbered in the order they are added
Middlewares(does) == [i \in 1..Len(does) |-> [id |-> i, does |-> does[i]]]

\* a next handler that stands for no middleware at all
RestNone(middlewares) == <<>>

\* [middleware, middlewares @ ..]: the middlewares after the first
Rest(middlewares) == Tail(middlewares)

\* StackHandler::handle: the result is the response and the trace of the
\* middlewares and handlers that were invoked, in their order
RECURSIVE StackHandler(_, _, _)
StackHandler(middlewares, req, next) ==
    IF middlewares = <<>>
    THEN [res |-> HandlerHandle(next, req), trace |-> <<next>>]
    ELSE LET middleware == Head(middlewares)
             rest == StackHandler(Rest(middlewares), req, next)
         IN  IF middleware.does = "answer"
             THEN [res |-> [status |-> ImATeapot, seen |-> req],
                   trace |-> <<middleware.id>>]
             ELSE IF middleware.does = "forward"
             THEN [res |-> rest.res,
                   trace |-> <<middleware.id>> \o rest.trace]
             ELSE [res |-> rest.res,
                   trace |-> <<middleware.id>> \o rest.trace
                                \o rest.trace]

\* stack::Builder::try_into_middleware: under a scope with a route the
\* stack gets the matcher of the route followed by /{*rest}
StackMatcher(scope) ==
    IF scope = NoRoute THEN NoRoute
    ELSE RouteAppend(scope, <<"/", CatchAll>>)

\* Stack::process
StackProcess(matcher, middlewares, req, next) ==
    IF matcher # NoRoute /\ ~At(matcher, TrimEndMatches(req.path, "/"))
    THEN [res |-> HandlerHandle(next, req), trace |-> <<next>>]
    ELSE StackHandler(middlewares, req, next)

\* the scopes a stack is built under
Scopes == {NoRoute, Root, <<"/", "a">>, <<"/", "a", "/", "b">>}

StackInputs == {does \in SeqsUpTo(Behaviours, MaxStack) : does # <<>>}

\* a call that is still to be made, with its input
Input(mw, input) ==
    [mw |-> mw, ran |-> FALSE, input |-> input, out |-> <<>>]

\* the call has been made, with the result out
Return(mw, out) ==
    /\ call.mw = mw
    /\ ~call.ran
    /\ call' = [call EXCEPT !.ran = TRUE, !.out = out]
    /\ UNCHANGED <<serverVars, monitorVars, managerVars, agentVars>>

\* the stacks that are called as a middleware: built under a scope
StackCalls ==
    {Input("Stack::process",
           [scope |-> scope, does |-> does, req |-> Request("GET", path)]) :
        scope \in Scopes, does \in StackInputs, path \in ReqPaths}

\* A stack built under a scope is called as a middleware.
StackCall ==
    Return("Stack::process",
           StackProcess(StackMatcher(call.input.scope),
                        Middlewares(call.input.does), call.input.req,
                        OkHandler))

\* the stacks that are called as a handler: built by try_into_handler,
\* under the default scope
StackHandles ==
    {Input("Stack::handle",
           [scope |-> NoRoute, does |-> does,
            req |-> Request("GET", path)]) :
        does \in SeqsUpTo(Behaviours, MaxStack), path \in ReqPaths}

\* A stack is called as a handler: Stack::handle is process(req, &NotFound).
StackHandle ==
    Return("Stack::handle",
           StackProcess(StackMatcher(call.input.scope),
                        Middlewares(call.input.does), call.input.req,
                        NotFoundHandler))

\* ---- Router (router.rs, router/routes.rs, router/routes/builder.rs) ----
Methods == {"GET", "POST"}

\* the request paths a router is called with
RouterPaths ==
    {p \in SeqsUpTo(Chars, MaxRoutePath) : p # <<>> /\ Head(p) = "/"}

\* Router::get and Router::post: the routes of a group, each with the
\* action that is registered for it
Route(method, path, action) ==
    [method |-> method, path |-> path, action |-> action]

\* the groups of routes a router registers: no two routes of a method
\* match the same path
RouteGroups ==
    {<<Route("GET", Root, 1), Route("GET", <<"/", "a">>, 2),
       Route("POST", <<"/", "b">>, 3)>>,
     <<Route("GET", <<"/", Param>>, 1)>>}

\* routes::Builder::try_into_middleware: the routes of the group with the
\* base of the scope before each of them; id tells the groups apart
RoutesIntoMiddleware(id, routes, scope) ==
    LET base == IF scope = NoRoute THEN Root ELSE scope
    IN  [kind |-> "Routes", id |-> id,
         entries |-> [i \in 1..Len(routes) |->
                         [method |-> routes[i].method,
                          route |-> RouteAppend(base, routes[i].path),
                          action |-> <<id, routes[i].action>>]]]

\* a scope that forgets the routers above
ScopeReplace(scope, route) == route

\* let scope = scope.join(path) in Router::try_into_middleware
RouterScope(scope, path) == ScopeJoin(scope, path)

\* Router::try_into_middleware for a router with a group of routes and a
\* middleware that is a router with a group of routes, registered in
\* either order: the groups of routes become Routes, the nested router a
\* stack inside the stack of the middleware group, and what comes out is
\* a stack without a matcher
RouterIntoMiddleware(router, scope) ==
    LET outer == RouterScope(scope, router.path)
        inner == RouterScope(outer, router.nested.path)
        routes == RoutesIntoMiddleware("outer", router.routes, outer)
        group ==
            [kind |-> "Stack", matcher |-> StackMatcher(outer),
             middlewares |->
                <<[kind |-> "Stack", matcher |-> NoRoute,
                   middlewares |->
                      <<RoutesIntoMiddleware("nested",
                                             router.nested.routes,
                                             inner)>>]>>]
    IN  [kind |-> "Stack", matcher |-> NoRoute,
         middlewares |-> IF router.first = "routes"
                         THEN <<routes, group>> ELSE <<group, routes>>]

\* the path Routes::process resolves
RoutesPath(path) ==
    IF path = Root THEN path ELSE TrimEndMatches(path, "/")

\* Routes::process: the action of the route that matches, if the method
\* has routes and one of them matches
RoutesProcess(routes, req) ==
    LET matcher == {i \in DOMAIN routes.entries :
                       routes.entries[i].method = req.method}
        found == {i \in matcher :
                     At(routes.entries[i].route, RoutesPath(req.path))}
    IN  IF matcher # {} /\ found # {}
        THEN [answered |-> TRUE,
              action |-> routes.entries[CHOOSE i \in found : TRUE].action,
              visited |-> <<routes.id>>]
        ELSE [answered |-> FALSE, action |-> <<>>,
              visited |-> <<routes.id>>]

\* Stack::process and StackHandler::handle for a stack of Routes and
\* stacks, each of which answers or forwards the request as it is: the
\* first one that answers, and the Routes the request has come to
RECURSIVE RouterProcess(_, _)
RECURSIVE RouterHandler(_, _)
RouterProcess(middleware, req) ==
    IF middleware.kind = "Routes" THEN RoutesProcess(middleware, req)
    ELSE IF /\ middleware.matcher # NoRoute
            /\ ~At(middleware.matcher, TrimEndMatches(req.path, "/"))
    THEN [answered |-> FALSE, action |-> <<>>, visited |-> <<>>]
    ELSE RouterHandler(middleware.middlewares, req)

RouterHandler(middlewares, req) ==
    IF middlewares = <<>>
    THEN [answered |-> FALSE, action |-> <<>>, visited |-> <<>>]
    ELSE LET first == RouterProcess(Head(middlewares), req)
             rest == RouterHandler(Tail(middlewares), req)
         IN  IF first.answered THEN first
             ELSE [rest EXCEPT !.visited = first.visited \o @]

\* the routers that are called: under no scope or under a scope, with
\* base paths of their own
RouterCalls ==
    {Input("Router",
           [scope |-> scope,
            router |-> [path |-> path, routes |-> routes, first |-> first,
                        nested |-> [path |-> below, routes |-> routes]],
            req |-> Request(method, uri)]) :
        scope \in {NoRoute, <<"/", "b">>},
        path \in {Root, <<"/", "a">>},
        below \in {Root, <<"/", "b">>},
        routes \in RouteGroups,
        first \in {"routes", "nested"},
        method \in Methods, uri \in RouterPaths}

\* A router is materialized and called with a request.
RouterCall ==
    LET stack == RouterIntoMiddleware(call.input.router, call.input.scope)
    IN  Return("Router",
               [stack |-> stack,
                res |-> RouterProcess(stack, call.input.req)])

\* ---- WebSocketHandshake (middleware/websocket.rs) ----
\* a header value is a string of words, spaces and commas; a header that is
\* missing has the value NoHeader
NoHeader == <<"(none)">>

\* str::to_ascii_lowercase, word by word
ToAsciiLowercase(value) ==
    [i \in DOMAIN value |->
        CASE value[i] = "Upgrade" -> "upgrade"
          [] value[i] = "WebSocket" -> "websocket"
          [] OTHER -> value[i]]

\* str::eq_ignore_ascii_case
EqIgnoreAsciiCase(a, b) == ToAsciiLowercase(a) = ToAsciiLowercase(b)

\* str::split(','): the pieces between the commas, the empty ones too
RECURSIVE Split(_, _)
Split(value, piece) ==
    IF value = <<>> THEN <<piece>>
    ELSE IF Head(value) = "," THEN <<piece>> \o Split(Tail(value), <<>>)
    ELSE Split(Tail(value), Append(piece, Head(value)))

\* str::trim
RECURSIVE Trim(_)
Trim(value) ==
    IF value = <<>> THEN value
    ELSE IF Head(value) = " " THEN Trim(Tail(value))
    ELSE IF value[Len(value)] = " "
    THEN Trim(SubSeq(value, 1, Len(value) - 1))
    ELSE value

\* a comparison that tells the cases apart
EqCase(a, b) == a = b

\* the comparison of the tokens of the Connection header
TokenEq(a, b) == EqIgnoreAsciiCase(a, b)

\* connection.split(',').map(str::trim).any(eq_ignore_ascii_case("upgrade"))
HasUpgrade(connection) ==
    \E i \in DOMAIN Split(connection, <<>>) :
        TokenEq(Trim(Split(connection, <<>>)[i]), <<"upgrade">>)

\* generate_accept_key: a value made of the key
AcceptKey(key) == <<"accept">> \o key

\* Response::from_status and Response::header: the status and the headers
\* that are set beside those of the text body
StatusResponse(code, headers) ==
    [status |-> code, headers |-> headers, seen |-> <<>>]

\* next.handle(req) with a handler that answers 200
Forward(req) ==
    [status |-> HandlerHandle(OkHandler, req).status, headers |-> {},
     seen |-> <<req>>]

\* WebSocketHandshake::process
WebSocketProcess(req) ==
    LET h == req.headers
    IN  IF h.upgrade = NoHeader THEN Forward(req)
        ELSE IF ~EqIgnoreAsciiCase(h.upgrade, <<"websocket">>)
        THEN Forward(req)
        ELSE IF req.method # "GET"
        THEN StatusResponse(MethodNotAllowed, {<<"Allow", <<"GET">>>>})
        ELSE IF h.connection = NoHeader THEN StatusResponse(BadRequest, {})
        ELSE IF ~HasUpgrade(h.connection) THEN StatusResponse(BadRequest, {})
        ELSE IF h.version # <<"13">>
        THEN StatusResponse(UpgradeRequired,
                        {<<"Upgrade", <<"websocket">>>>,
                         <<"Sec-WebSocket-Version", <<"13">>>>})
        ELSE IF h.key = NoHeader THEN StatusResponse(BadRequest, {})
        ELSE StatusResponse(SwitchingProtocols,
                        {<<"Upgrade", <<"websocket">>>>,
                         <<"Connection", <<"Upgrade">>>>,
                         <<"Sec-WebSocket-Accept", AcceptKey(h.key)>>})

\* the requests the handshake is called with
WebSocketCalls ==
    {Input("WebSocketHandshake",
           [req |-> [Request(method, Root) EXCEPT !.headers =
                        [upgrade |-> upgrade, connection |-> connection,
                         version |-> version, key |-> key]]]) :
        method \in Methods,
        upgrade \in {NoHeader, <<"websocket">>, <<"WebSocket">>, <<"h2c">>,
                     <<"websocket", " ">>},
        connection \in {NoHeader} \cup
                       SeqsUpTo({"upgrade", "Upgrade", "close", ",", " "},
                                MaxTokens),
        version \in {NoHeader, <<"13">>, <<"8">>},
        key \in {NoHeader, <<"key">>}}

\* A request passes the handshake.
WebSocketCall ==
    Return("WebSocketHandshake", WebSocketProcess(call.input.req))

\* ---- BasePath (middleware/path/base.rs) ----
\* str::trim_start_matches: the string without the prefixes that repeat at
\* its start
RECURSIVE TrimStartMatches(_, _)
TrimStartMatches(s, prefix) ==
    IF prefix # <<>> /\ StartsWith(s, prefix)
    THEN TrimStartMatches(SubSeq(s, Len(prefix) + 1, Len(s)), prefix)
    ELSE s

\* Response::redirect
Redirect(location) ==
    StatusResponse(Found, {<<"Location", location>>,
                           <<"Content-Length", <<"0">>>>})

\* BasePath::process
BasePathProcess(base, req) ==
    IF base = Root THEN Forward(req)
    ELSE IF req.path = Root THEN Redirect(base)
    ELSE IF StartsWith(req.path, base)
    THEN Forward([req EXCEPT !.path = TrimStartMatches(req.path, base)])
    ELSE Forward(req)

\* the base paths and the requests the middleware is called with
BasePathCalls ==
    {Input("BasePath",
           [base |-> base,
            req |-> [Request(method, path) EXCEPT !.query = query]]) :
        base \in Scopes \ {NoRoute}, method \in Methods, path \in ReqPaths,
        query \in {<<>>, <<"q">>}}

\* A request passes the base path.
BasePathCall ==
    Return("BasePath", BasePathProcess(call.input.base, call.input.req))

\* ---- StaticFiles (middleware/files.rs) ----
\* the files below the base directory: a file is known by its path, and
\* all of them were modified at the same time
FileNames == {<<"a">>, <<"index.html">>, <<"404.html">>}

\* the clock when the request is served
Now == MaxSecs * UnitsPerSec

\* httpdate::fmt_http_date: a time to the second
FmtHttpDate(time) == <<"date", time \div UnitsPerSec>>

\* httpdate::parse_http_date: the time a date names, or an error
ParseHttpDate(value) ==
    IF Len(value) = 2 /\ value[1] = "date"
    THEN [ok |-> TRUE, time |-> value[2] * UnitsPerSec]
    ELSE [ok |-> FALSE, time |-> 0]

\* the media type from_file derives from the extension
Mime(name) ==
    IF name \in {<<"index.html">>, <<"404.html">>}
    THEN <<"text/html; charset=utf-8">>
    ELSE <<"application/octet-stream">>

\* what fs::read gives for a file
Content(name) == <<"content of">> \o name

\* Response::from_file
FromFile(disk, name) ==
    IF name \in disk.files
    THEN [ok |-> TRUE,
          res |-> [status |-> Ok,
                   headers |-> {<<"Content-Type", Mime(name)>>,
                                <<"Content-Length", Len(Content(name))>>,
                                <<"Last-Modified",
                                  FmtHttpDate(disk.mtime)>>},
                   body |-> Content(name)]]
    ELSE [ok |-> FALSE, res |-> <<>>]

\* StaticFiles::fallback: what next answers, or 404.html in place of a 404
Fallback(disk, req, next) ==
    LET res == HandlerHandle(next, req)
        page == FromFile(disk, <<"404.html">>)
    IN  IF res.status = NotFound /\ page.ok
        THEN [status |-> page.res.status, headers |-> page.res.headers,
              body |-> page.res.body, seen |-> <<req>>]
        ELSE [status |-> res.status, headers |-> {}, body |-> <<>>,
              seen |-> <<req>>]

\* the file a request path names
FilePath(path) ==
    LET relative == TrimStartMatches(path, <<"/">>)
    IN  IF path[Len(path)] = "/" THEN relative \o <<"index.html">>
        ELSE relative

\* a modification time taken as it is
LastExact(mtime) == mtime

\* last -= Duration::from_secs(1)
Last(mtime) == mtime - UnitsPerSec

\* StaticFiles::process
StaticFilesProcess(disk, req, next) ==
    IF req.method \notin {"GET", "HEAD"} THEN Fallback(disk, req, next)
    ELSE LET file == FromFile(disk, FilePath(req.path))
             res == [status |-> file.res.status,
                     headers |-> file.res.headers
                                 \cup {<<"Date", FmtHttpDate(Now)>>},
                     body |-> file.res.body, seen |-> <<>>]
             since == req.headers.since
             header == ParseHttpDate(since)
         IN  IF ~file.ok THEN Fallback(disk, req, next)
             ELSE IF req.method = "HEAD" THEN [res EXCEPT !.body = <<>>]
             ELSE IF since # NoHeader /\ ~header.ok THEN res
             ELSE IF since # NoHeader /\ header.time >= Last(disk.mtime)
             THEN [status |-> NotModified,
                   headers |-> {<<"Content-Length", 0>>},
                   body |-> <<>>, seen |-> <<>>]
             ELSE res

\* the directories, requests and handlers the middleware is called with
StaticFilesCalls ==
    {Input("StaticFiles",
           [disk |-> [files |-> files, mtime |-> mtime],
            req |-> [Request(method, path) EXCEPT !.headers =
                        [since |-> since]],
            next |-> next]) :
        files \in SUBSET FileNames,
        mtime \in 0..(MaxSecs * UnitsPerSec),
        method \in Methods \cup {"HEAD"},
        path \in {Root, <<"/", "a">>, <<"/", "b">>, <<"/", "a", "/">>},
        since \in {NoHeader, <<"soon">>}
                  \cup {<<"date", secs>> : secs \in 0..MaxSecs},
        next \in {NotFoundHandler, OkHandler}}

\* A request for a file is served.
StaticFilesCall ==
    Return("StaticFiles",
           StaticFilesProcess(call.input.disk, call.input.req,
                              call.input.next))

(***************************************************************************)
(* The request URI (http/request.rs, request/uri.rs, request/uri/query.rs, *)
(* request/uri/query/encoding.rs).  A string is the sequence of its        *)
(* characters.                                                             *)
(***************************************************************************)
\* ---- encoding.rs ----
IsHexDigit(c) ==
    c \in {"0", "1", "2", "3", "4", "5", "6", "7", "8", "9",
           "a", "b", "c", "d", "e", "f", "A", "B", "C", "D", "E", "F"}

\* the character of the byte that two hex digits give, for the bytes that
\* the strings of the runs hold; every other byte is shown as "?"
FromHex(h, l) ==
    CASE h = "2" /\ l = "0" -> " "
      [] h = "2" /\ l = "3" -> "#"
      [] h = "2" /\ l = "5" -> "%"
      [] h = "2" /\ l = "6" -> "&"
      [] h = "2" /\ l \in {"b", "B"} -> "+"
      [] h = "2" /\ l \in {"e", "E"} -> "."
      [] h = "2" /\ l \in {"f", "F"} -> "/"
      [] h = "3" /\ l \in {"d", "D"} -> "="
      [] OTHER -> "?"

\* the two upper-case hex digits of the byte of a character of SET
ToHex(c) ==
    CASE c = " " -> <<"2", "0">>
      [] c = "#" -> <<"2", "3">>
      [] c = "%" -> <<"2", "5">>
      [] c = "=" -> <<"3", "D">>
      [] c = "<" -> <<"3", "C">>
      [] c = ">" -> <<"3", "E">>
      [] c = "[" -> <<"5", "B">>
      [] c = "]" -> <<"5", "D">>
      [] c = "^" -> <<"5", "E">>
      [] c = "{" -> <<"7", "B">>
      [] c = "|" -> <<"7", "C">>
      [] c = "}" -> <<"7", "D">>
      [] OTHER -> <<"7", "F">>

\* const SET: the characters to be percent-encoded, but for the controls,
\* the double quote and the backtick, which no string of the runs holds
EncodeSet ==
    {" ", "#", "%", "<", ">", "[", "]", "^", "{", "|", "}", "="}

\* utf8_percent_encode(value, SET)
RECURSIVE Encode(_)
Encode(value) ==
    IF value = <<>> THEN <<>>
    ELSE (IF Head(value) \in EncodeSet
          THEN <<"%">> \o ToHex(Head(value))
          ELSE <<Head(value)>>)
         \o Encode(Tail(value))

\* percent_decode_str: a % with two hex digits behind it is the byte they
\* give, every other character stands for itself
RECURSIVE PercentDecode(_)
PercentDecode(value) ==
    IF value = <<>> THEN <<>>
    ELSE IF /\ Head(value) = "%"
            /\ Len(value) >= 3
            /\ IsHexDigit(value[2])
            /\ IsHexDigit(value[3])
    THEN <<FromHex(value[2], value[3])>>
         \o PercentDecode(SubSeq(value, 4, Len(value)))
    ELSE <<Head(value)>> \o PercentDecode(Tail(value))

\* str::replace: every plus becomes a space
ReplacePlus(value) ==
    [i \in 1..Len(value) |-> IF value[i] = "+" THEN " " ELSE value[i]]

\* decode
Decode(value) ==
    IF "+" \in Range(value) THEN PercentDecode(ReplacePlus(value))
    ELSE PercentDecode(value)

\* ---- query.rs ----
\* usize::saturating_sub
SaturatingSub(a, b) == IF a >= b THEN a - b ELSE 0

QueryParam(key, value) == [key |-> key, value |-> value]

\* Query::from: the loop over value.char_indices() and the sentinel
\* ampersand at value.len(); i, start and index count from 0 as in the source.
RECURSIVE QueryLoop(_, _, _, _, _)
QueryLoop(value, i, start, index, pairs) ==
    IF i > Len(value) THEN pairs
    ELSE LET char == IF i = Len(value) THEN "&" ELSE value[i + 1]
             slice == Decode(SubSeq(value, start + 1, i))
         IN  IF char = "=" /\ index = Len(pairs)
             THEN QueryLoop(value, i + 1, i + 1, index,
                            Append(pairs, QueryParam(slice, <<>>)))
             ELSE IF char = "&" /\ start # SaturatingSub(i, 1)
             THEN QueryLoop(value, i + 1, i + 1, index + 1,
                     IF index < Len(pairs) /\ pairs[index + 1].value = <<>>
                     THEN [pairs EXCEPT ![index + 1].value = slice]
                     ELSE Append(pairs, QueryParam(slice, <<>>)))
             ELSE QueryLoop(value, i + 1, start, index, pairs)

QueryFrom(value) == QueryLoop(value, 0, 0, 0, <<>>)

NoValue == <<"(none)">>

\* Query::get
QueryGet(query, key) ==
    IF \E i \in 1..Len(query) : query[i].key = key
    THEN query[CHOOSE i \in 1..Len(query) :
                  /\ query[i].key = key
                  /\ \A j \in 1..(i - 1) : query[j].key # key].value
    ELSE NoValue

\* Query::get_all
RECURSIVE QueryGetAll(_, _)
QueryGetAll(query, key) ==
    IF query = <<>> THEN <<>>
    ELSE (IF Head(query).key = key THEN <<Head(query).value>> ELSE <<>>)
         \o QueryGetAll(Tail(query), key)

\* Query::contains
QueryContains(query, key) == \E i \in 1..Len(query) : query[i].key = key

\* ---- uri.rs and request.rs ----
\* str::split(c), the piece in the making carried along
RECURSIVE SplitOn(_, _, _)
SplitOn(value, c, piece) ==
    IF value = <<>> THEN <<piece>>
    ELSE IF Head(value) = c
    THEN <<piece>> \o SplitOn(Tail(value), c, <<>>)
    ELSE SplitOn(Tail(value), c, Append(piece, Head(value)))

\* str::contains of a string of characters
ContainsStr(value, pat) ==
    \E i \in 1..(Len(value) - Len(pat) + 1) :
        SubSeq(value, i, i + Len(pat) - 1) = pat

\* Uri::from: the path is what stands before the first question mark,
\* decoded
UriFrom(value) ==
    LET parts == SplitOn(value, "?", <<>>)
        rest == SubSeq(value, Len(parts[1]) + 2, Len(value))
    IN  [path |-> Decode(parts[1]),
         query |-> IF Len(parts) > 1 THEN QueryFrom(rest) ELSE <<>>]

\* Uri::from that takes the path as it is written
UriFromRaw(value) ==
    LET parts == SplitOn(value, "?", <<>>)
        rest == SubSeq(value, Len(parts[1]) + 2, Len(value))
    IN  [path |-> parts[1],
         query |-> IF Len(parts) > 1 THEN QueryFrom(rest) ELSE <<>>]

RequestUri(value) == UriFrom(value)

\* Path::components of a Unix path: the root, then the names between the
\* slashes, where an empty name and "." inside the path are left out and
\* ".." is Component::ParentDir
Components(path) ==
    LET names == SplitOn(path, "/", <<>>)
        kept == SelectSeq(names, LAMBDA n :
                    n # <<>> /\ (n # <<".">> \/ n = Head(names)))
    IN  (IF path # <<>> /\ Head(path) = "/" THEN <<"RootDir">> ELSE <<>>)
        \o [i \in 1..Len(kept) |->
               IF kept[i] = <<".", ".">> THEN "ParentDir"
               ELSE IF kept[i] = <<".">> THEN "CurDir"
               ELSE "Normal"]

\* the longest request path, in bytes
UriLimit == 2048

Validation(code) == [kind |-> "Validation", status |-> code, path |-> <<>>]

\* Request::from_bytes from the path that httparse has found on: the length
\* check, the leading slash, the traversal check
FromPath(path) ==
    IF Len(path) > UriLimit THEN Validation(UriTooLong)
    ELSE LET uri == RequestUri(path)
         IN  IF uri.path = <<>> \/ Head(uri.path) # "/"
             THEN Validation(BadRequest)
             ELSE IF /\ ContainsStr(uri.path, <<".", ".">>)
                     /\ "ParentDir" \in Range(Components(uri.path))
             THEN Validation(BadRequest)
             ELSE [kind |-> "Ok", status |-> 0, path |-> uri.path]

\* ---- the calls ----
\* the pieces the request paths of the runs are written with
PathUnits ==
    {<<"/">>, <<".">>, <<".", ".">>, <<"n">>, <<"+">>,
     <<"%", "2", "e">>, <<"%", "2", "f">>}

RECURSIVE Flatten(_)
Flatten(parts) ==
    IF parts = <<>> THEN <<>> ELSE Head(parts) \o Flatten(Tail(parts))

RawPaths == {Flatten(u) : u \in SeqsUpTo(PathUnits, MaxUnits)}

RequestCalls == {Input("Request", p) : p \in RawPaths}

RequestCall == Return("Request", FromPath(call.input))

\* the pairs the query strings of the runs are written with: a key alone
\* or a key, an equals sign and a value
QueryKeys == {<<"a">>, <<"b">>, <<"a", "b">>}

QueryValues == {<<>>, <<"1">>, <<"2">>, <<"1", "2">>}

QuerySegments ==
    QueryKeys \cup {k \o <<"=">> \o v : k \in QueryKeys, v \in QueryValues}

RECURSIVE JoinAmp(_)
JoinAmp(parts) ==
    IF parts = <<>> THEN <<>>
    ELSE IF Len(parts) = 1 THEN Head(parts)
    ELSE Head(parts) \o <<"&">> \o JoinAmp(Tail(parts))

QueryStrings == {JoinAmp(q) : q \in SeqsUpTo(QuerySegments, MaxPairs)}

QueryCalls == {Input("Query", q) : q \in QueryStrings}

QueryCall == Return("Query", QueryFrom(call.input))

\* the characters of the strings that are encoded
EncodeChars == {"n", "+", "%", " ", "=", "&", "2", "5"}

EncodingCalls ==
    {Input("Encoding", s) : s \in SeqsUpTo(EncodeChars, MaxStr)}

EncodingCall ==
    Return("Encoding", [encoded |-> Encode(call.input),
                        decoded |-> Decode(Encode(call.input))])

InitUri ==
    \/ call \in RequestCalls
    \/ call \in QueryCalls
    \/ call \in EncodingCalls

NextUri ==
    \/ RequestCall
    \/ QueryCall
    \/ EncodingCall

InitMiddleware ==
    \/ call \in StackCalls
    \/ call \in StackHandles
    \/ call \in RouterCalls
    \/ call \in WebSocketCalls
    \/ call \in BasePathCalls
    \/ call \in StaticFilesCalls

NextMiddleware ==
    \/ StackCall
    \/ StackHandle
    \/ RouterCall
    \/ WebSocketCall
    \/ BasePathCall
    \/ StaticFilesCall

(***************************************************************************)
(* Specifications.                                                         *)
(***************************************************************************)
Init == InitServer /\ IdleMonitor /\ IdleManager /\ IdleAgent
    /\ IdleMiddleware

SpecServer == Init /\ [][NextServer]_vars

\* The server with a reload channel that has one sender, polled with or
\* without the receiver; the peers send one byte, the request.
InitReload ==
    /\ InitLoop(1)
    /\ reload \in {[NoReload EXCEPT !.senders = 1, !.supplied = b] :
                      b \in BOOLEAN}
    /\ IdleMonitor
    /\ IdleManager
    /\ IdleAgent
    /\ IdleMiddleware

SpecReload == InitReload /\ [][NextReload]_vars

\* The server thread, polling with the receiver, and the thread of the
\* watcher, whose callback sends and then wakes; the peers send one byte.
InitWatcher ==
    /\ InitLoop(1)
    /\ reload = [NoReload EXCEPT !.senders = 1, !.supplied = TRUE]
    /\ IdleMonitor
    /\ IdleManager
    /\ IdleAgent
    /\ IdleMiddleware

\* a poll that reports the waker: the signal is taken
PollWaker ==
    /\ status = "running"
    /\ events = <<>>
    /\ reload.woken
    /\ reload' = [reload EXCEPT !.woken = FALSE]

\* the loop goes on to the next event of the tick
NextEvent ==
    /\ status = "running"
    /\ events # <<>>
    /\ events' = Tail(events)

NextWatcher ==
    \/ \E a \in Acceptors : Connect(a)
    \/ \E s \in Socks, b \in InBytes : ClientSend(s, b)
    \/ \E evs \in EventSeqs \ {<<>>} : Poll(evs, 0)
    \/ AcceptorEvent
    \/ ConnectionEvent
    \/ WakerEvent
    \/ WatcherSend
    \/ WatcherWake

\* the waker is reported by a poll after it was signalled, the loop goes
\* from event to event and from tick to tick, and the callback of the
\* watcher goes on after its send
SpecWatcher ==
    /\ InitWatcher
    /\ [][NextWatcher]_vars
    /\ SF_reload(PollWaker)
    /\ WF_events(NextEvent)
    /\ WF_vars(WatcherWake)

\* The loop with one socket more than the other runs have and peers that
\* send nothing: connections come, are reaped or closed, and their slots
\* are taken again.
InitTokens ==
    /\ InitSockets(1..(MaxSock + 1), 0)
    /\ reload = NoReload
    /\ IdleMonitor
    /\ IdleManager
    /\ IdleAgent
    /\ IdleMiddleware

NextTokens ==
    \/ \E a \in Acceptors : Connect(a)
    \/ \E s \in Socks : ClientShutdown(s)
    \/ \E evs \in EventSeqs, dt \in Advance : Poll(evs, dt)
    \/ AcceptorEvent
    \/ ConnectionEvent
    \/ StaleEvent

SpecTokens == InitTokens /\ [][NextTokens]_vars

\* An event the poller reports for what is so: the waker and the acceptors
\* (ReadyEvents has them only when signalled or with a client waiting), and
\* for a connection the readiness it is registered for, readable only when
\* the socket has bytes or the end of the stream to read.
Genuine(e) ==
    \/ e.socket = 0
    \/ /\ e.socket \in Socks
       /\ registry[e.socket] # NotRegistered
       /\ e.readable => /\ "R" \in registry[e.socket].interest
                        /\ \/ net[e.socket].in # <<>>
                           \/ net[e.socket].peer # "open"
       /\ e.writable => "W" \in registry[e.socket].interest

PollGenuine(evs) ==
    /\ \A i \in 1..Len(evs) : Genuine(evs[i])
    /\ Poll(evs, 0)

\* An event of a connection whose peer keeps reading: a write reported
\* possible takes at least one byte and none fails.
PeerReads ==
    /\ ConnectionEvent
    /\ (lastWrite'.ran /\ lastWrite'.pre.state = "Writing") =>
          /\ ~lastWrite'.failed
          /\ lastWrite'.ret \in {"break", "Continue"}
          /\ lastWrite'.sent # sent[lastWrite'.socket]

\* a poll that reports what the connection of socket s is registered for
\* and ready for
PollReady(s) ==
    /\ status = "running"
    /\ events = <<>>
    /\ \E e \in ReadyEvents :
          /\ e.socket = s
          /\ Genuine(e)
          /\ events' = <<e>>

NextConnection ==
    \/ \E a \in Acceptors : Connect(a)
    \/ \E s \in Socks, b \in InBytes : ClientSend(s, b)
    \/ \E s \in Socks : ClientShutdown(s)
    \/ \E evs \in EventSeqs \ {<<>>} : PollGenuine(evs)
    \/ AcceptorEvent
    \/ PeerReads

\* The loop under fair delivery: a connection that stays or becomes ready
\* again and again is reported by a poll, and the loop goes from event to
\* event; the clock stands still, so that no connection is reaped.
SpecConnection ==
    /\ Init
    /\ [][NextConnection]_vars
    /\ \A s \in 1..MaxSock : SF_events(PollReady(s))
    /\ WF_events(NextEvent)

MonitorInit == InitServer /\ InitMonitor /\ IdleManager /\ IdleAgent
    /\ IdleMiddleware

SpecMonitor == MonitorInit /\ [][NextMonitor]_vars

\* The middlewares, each called with requests of all kinds.
MiddlewareInit ==
    /\ InitServer
    /\ IdleMonitor
    /\ IdleManager
    /\ IdleAgent
    /\ InitMiddleware

SpecMiddleware == MiddlewareInit /\ [][NextMiddleware]_vars

\* The parser of the request URI, called with paths, query strings and
\* strings to encode.
UriInit ==
    /\ InitServer
    /\ IdleMonitor
    /\ IdleManager
    /\ IdleAgent
    /\ InitUri

SpecUri == UriInit /\ [][NextUri]_vars

ManagerInit == InitServer /\ IdleMonitor /\ InitManager /\ IdleAgent
    /\ IdleMiddleware

SpecManager == ManagerInit /\ [][NextManager]_vars

\* The agent over the project's tree, which does not change.  The thread of
\* the agent keeps running its loop: a select that can return does return
\* and its arm is run; and an armed timer expires.
AgentInit ==
    /\ InitServer
    /\ IdleMonitor
    /\ fs = ProjectTree
    /\ manager = NewManager
    /\ queue = <<>>
    /\ handled = NotHandled
    /\ fsOps = 0
    /\ IdleAgent
    /\ IdleMiddleware

SpecAgent ==
    /\ AgentInit
    /\ [][NextAgent]_vars
    /\ WF_vars(\E fails \in FailSets : CommandArm(fails))
    /\ WF_vars(Disconnected)
    /\ WF_vars(MonitorArm)
    /\ WF_queue(Flush)
    /\ WF_vars(Expire)

(***************************************************************************)
(* Claims about the connection state machine and the event loop.           *)
(***************************************************************************)

\* C1: requests and responses of a connection are strictly ordered: the
\* handler is invoked only by a read step that found the connection Reading
\* and with no byte of an earlier response still to be written; a read step
\* on a Writing connection does not read from the socket, does not invoke
\* the handler and leaves the connection (buffer, cursor, position, upgrade
\* marker) as it was.
C1_ReadOrdering ==
    lastRead.ran =>
        /\ lastRead.invoked =>
              /\ lastRead.pre.state = "Reading"
              /\ lastRead.owed = 0
        /\ lastRead.pre.state = "Writing" =>
              /\ lastRead.nread = 0
              /\ ~lastRead.called
              /\ ~lastRead.invoked
              /\ lastRead.post = lastRead.pre

\* A read step ran on a connection with a partly written response.
C1_Witness ==
    /\ lastRead.ran
    /\ lastRead.pre.state = "Writing"
    /\ lastRead.pre.pos > 0
    /\ lastRead.pre.pos < Len(lastRead.pre.cursor)

\* C2: the pending-upgrade marker is attached exactly to 101 responses; a
\* socket enters the peer set only through the Upgrade signal of a write
\* step that wrote the last byte of a 101 response, which also takes it out
\* of the HTTP connections and deregisters it; a fully written 101 response
\* makes its socket a peer; no socket is an HTTP connection and a peer.
C2_Upgrade ==
    /\ [](/\ clients \cap HttpSockets = {}
          /\ \A k \in SlabKeys(connections) :
                LET conn == SlabGet(connections, k)
                IN  conn.state = "Writing" =>
                      (conn.upgrade <=>
                         conn.cursor[1][1] = SwitchingProtocols)
          /\ (/\ lastWrite.ran
              /\ status = "running"
              /\ lastWrite.pre.state = "Writing"
              /\ lastWrite.ret = "break"
              /\ lastWrite.response[1][1] = SwitchingProtocols)
             => lastWrite.socket \in clients)
    /\ [][\A s \in clients' \ clients :
             /\ lastWrite'.ran
             /\ lastWrite'.socket = s
             /\ lastWrite'.signal = Upgrade
             /\ lastWrite'.sent = lastWrite'.response
             /\ lastWrite'.response[1][1] = SwitchingProtocols
             /\ s \in HttpSockets
             /\ s \notin HttpSockets'
             /\ registry[s] # NotRegistered
             /\ registry'[s] = NotRegistered]_vars

\* A connection became a peer after its 101 response took two write steps.
C2_Witness ==
    /\ lastWrite.ran
    /\ lastWrite.signal = Upgrade
    /\ lastWrite.socket \in clients
    /\ lastWrite.pre.pos > 0

\* C3: a write step on a Writing connection sends the bytes of the response
\* in order and each once: what the socket has taken so far is the response
\* up to the cursor.  On WouldBlock it returns Continue and the connection
\* stays Writing with the same response; at the end of the response it
\* returns Upgrade if the marker is attached and else Interest(Readable),
\* and the connection is Reading with an empty buffer.
C3_WriteStep ==
    (lastWrite.ran /\ lastWrite.pre.state = "Writing") =>
        /\ lastWrite.response = lastWrite.pre.cursor
        /\ lastWrite.ret = "Continue" =>
              /\ lastWrite.signal = Continue
              /\ lastWrite.post.state = "Writing"
              /\ lastWrite.post.cursor = lastWrite.pre.cursor
              /\ lastWrite.post.upgrade = lastWrite.pre.upgrade
              /\ lastWrite.post.pos < Len(lastWrite.post.cursor)
              /\ lastWrite.sent =
                    SubSeq(lastWrite.response, 1, lastWrite.post.pos)
        /\ lastWrite.ret = "break" =>
              /\ lastWrite.sent = lastWrite.response
              /\ lastWrite.signal =
                    (IF lastWrite.pre.upgrade THEN Upgrade
                     ELSE Interest({"R"}))
              /\ lastWrite.post.state = "Reading"
              /\ lastWrite.post.buffer = <<>>
        /\ lastWrite.ret \in {"Close", "spin"} =>
              lastWrite.sent =
                 SubSeq(lastWrite.response, 1, lastWrite.post.pos)

\* A response was completed by a write step that followed a partial one.
C3_Witness ==
    /\ lastWrite.ran
    /\ lastWrite.pre.state = "Writing"
    /\ lastWrite.pre.pos > 0
    /\ lastWrite.ret = "break"
    /\ lastWrite.signal = Interest({"R"})

(***************************************************************************)
(* Claims about the monitor.                                               *)
(***************************************************************************)
ProperAncestor(q, p) == q # p /\ StartsWith(p, q)

\* C5: as long as every call of the monitor has succeeded, a recorded root
\* is flagged active exactly if no other recorded root is a proper ancestor
\* of it, and no two active roots overlap; watch removes no recorded root
\* and unwatch removes at most the root it is given.
C5_ActiveRoots ==
    /\ [](~monFailed =>
            /\ \A p \in DOMAIN monPaths :
                  monPaths[p] <=>
                     ~\E q \in DOMAIN monPaths : ProperAncestor(q, p)
            /\ \A p, q \in DOMAIN monPaths :
                  (monPaths[p] /\ monPaths[q] /\ p # q) =>
                     (~StartsWith(p, q) /\ ~StartsWith(q, p)))
    /\ [][/\ monLast'.op = "watch" =>
                DOMAIN monPaths \subseteq DOMAIN monPaths'
          /\ monLast'.op = "unwatch" =>
                /\ DOMAIN monPaths' \subseteq DOMAIN monPaths
                /\ Cardinality(DOMAIN monPaths \ DOMAIN monPaths') <= 1]_vars

\* An unwatch made a dormant root active while a root below that one stays
\* dormant.
C5_Witness ==
    /\ ~monFailed
    /\ monLast.op = "unwatch"
    /\ monLast.result = "Ok(true)"
    /\ \E p, q \in DOMAIN monPaths :
          monPaths[p] /\ ~monPaths[q] /\ ProperAncestor(p, q)

(***************************************************************************)
(* Claims about the manager.  handled holds the last call of               *)
(* Manager::handle: its batch, the manager before it and its results; fs   *)
(* is the file system the call has looked at.                              *)
(***************************************************************************)
Exists(path) == GetFileId(fs, path) # NoId

\* the places in the results of the events of a type for a path
Places(type, path) ==
    {i \in 1..Len(handled.results) :
        /\ handled.results[i].type = type
        /\ handled.results[i].path = path}

PathsIdsInverse(mgr) ==
    /\ \A p \in DOMAIN mgr.paths :
          /\ mgr.paths[p].id \in DOMAIN mgr.ids
          /\ mgr.ids[mgr.paths[p].id] = p
    /\ \A f \in DOMAIN mgr.ids :
          /\ mgr.ids[f] \in DOMAIN mgr.paths
          /\ mgr.paths[mgr.ids[f]].id = f

\* C4: after any sequence of Manager::handle calls, with changes of the
\* file system between them, paths and ids are inverse to each other:
\* paths[p] = (f, k) implies ids[f] = p, and ids[f] = p implies that
\* paths[p] carries f.
C4_PathsIdsInverse == PathsIdsInverse(manager)

\* C6: when a batch holds a path old that no longer exists and is tracked
\* with identifier f, and a path new that exists with the same f, the
\* results hold exactly one Rename(old, new), no Remove(old) and no
\* Create(new); afterwards paths holds new with f and not old, and
\* ids[f] = new.
C6_RenameCoalescing ==
    handled.ran =>
        \A old \in Range(handled.batch), new \in Range(handled.batch) :
            (/\ ~Exists(old)
             /\ old \in DOMAIN handled.before.paths
             /\ Exists(new)
             /\ GetFileId(fs, new) = handled.before.paths[old].id)
            => LET f == handled.before.paths[old].id
               IN  /\ Cardinality({i \in Places("Rename", new) :
                          handled.results[i].from = old}) = 1
                   /\ Places("Remove", old) = {}
                   /\ Places("Create", new) = {}
                   /\ new \in DOMAIN manager.paths
                   /\ manager.paths[new].id = f
                   /\ old \notin DOMAIN manager.paths
                   /\ f \in DOMAIN manager.ids
                   /\ manager.ids[f] = new

\* the entries the file system holds at a path and below it
Entries(path) == {p \in DOMAIN fs : StartsWith(p, path)}

\* C7: in the results of one call, Create(F) comes before Create(F/a) for
\* every created folder F and created entry F/a below it, whatever the
\* file identifiers are; and every entry not seen before, at a path of the
\* batch or below it, gets exactly one Create and is recorded in paths and
\* ids.
C7_CreateOrder ==
    handled.ran =>
        /\ \A i \in 1..Len(handled.results), j \in 1..Len(handled.results) :
              (/\ handled.results[i].type = "Create"
               /\ handled.results[i].kind = "Folder"
               /\ handled.results[j].type = "Create"
               /\ handled.results[j].path # handled.results[i].path
               /\ StartsWith(handled.results[j].path,
                             handled.results[i].path))
              => i < j
        /\ \A root \in Range(handled.batch) :
              (/\ root \in DOMAIN fs
               /\ \A other \in Range(handled.batch) :
                     other \in DOMAIN fs =>
                         other = root \/ fs[other].id # fs[root].id
               /\ \A old \in DOMAIN handled.before.paths :
                     handled.before.paths[old].id # fs[root].id)
              => \A p \in Entries(root) \ DOMAIN handled.before.paths :
                    /\ Cardinality(Places("Create", p)) = 1
                    /\ p \in DOMAIN manager.paths
                    /\ manager.paths[p].id \in DOMAIN manager.ids

\* the entries the manager held at a path and below it before the call
TrackedBelow(root) ==
    {p \in DOMAIN handled.before.paths : StartsWith(p, root)}

\* the places of the Remove events for a tracked entry itself: an event
\* made for a link carries the kind of the entry below the target
Removes(p) ==
    {i \in Places("Remove", p) :
        handled.results[i].kind = handled.before.paths[p].kind}

\* C8: when the paths of a batch no longer exist, then for every tracked
\* path among them the results hold one Remove for every tracked entry of
\* its subtree, each descendant before its ancestors, and these entries
\* are gone from paths and ids; the entries outside these subtrees, also
\* those whose name only starts with the same characters, are untouched.
C8_SubtreeRemove ==
    (handled.ran /\ \A root \in Range(handled.batch) : ~Exists(root)) =>
        /\ \A root \in Range(handled.batch) \cap DOMAIN handled.before.paths :
              \A p \in TrackedBelow(root) :
                  /\ Cardinality(Removes(p)) = 1
                  /\ p \notin DOMAIN manager.paths
                  /\ handled.before.paths[p].id \notin DOMAIN manager.ids
                  /\ \A q \in TrackedBelow(p) \ {p} :
                        \A i \in Removes(q), j \in Removes(p) : i < j
        /\ \A p \in DOMAIN handled.before.paths :
              (\A root \in Range(handled.batch) \cap DOMAIN handled.before.paths :
                  ~StartsWith(p, root))
              => /\ p \in DOMAIN manager.paths
                 /\ manager.paths[p] = handled.before.paths[p]
                 /\ \A f \in DOMAIN handled.before.ids :
                       handled.before.ids[f] = p =>
                           f \in DOMAIN manager.ids /\ manager.ids[f] = p

\* the recorded targets that are a prefix of a path
Targets(links, path) == {t \in DOMAIN links : StartsWith(path, t)}

\* an event for an entry of paths itself, not one made for a link
Original(event) ==
    /\ event.type # "Error"
    /\ event.kind # "Link"
    /\ \/ /\ event.path \in DOMAIN handled.before.paths
          /\ handled.before.paths[event.path].kind = event.kind
       \/ /\ event.path \in DOMAIN manager.paths
          /\ manager.paths[event.path].kind = event.kind

\* the events spread makes for an event: one for each link of every
\* target that is a prefix of its path
Spreaded(links, event) ==
    {[type |-> IF event.type = "Rename" /\ ~StartsWith(event.from, t)
               THEN "Create" ELSE event.type,
      kind |-> event.kind,
      path |-> links[t][k] \o StripPrefix(event.path, t)] :
        <<t, k>> \in {x \in Targets(links, event.path) \X (1..MaxIds) :
                         x[2] <= Len(links[x[1]])}}

Shown(event) ==
    [type |-> event.type, kind |-> event.kind, path |-> event.path]

\* C9: every event for a file or folder whose path is under a recorded
\* target is directly followed by one event of the same type for each link
\* of every target that is a prefix of the path, with the path going
\* through the link; also when targets are nested in one another.  (A
\* rename that comes from outside the target may be a creation for the
\* link.)
C9_SymlinkSpread ==
    handled.ran =>
        \A i \in 1..Len(handled.results) :
            LET event == handled.results[i]
                links == handled.before.links
                want == Spreaded(links, event)
                n == Cardinality(want)
            IN  (Original(event) /\ Targets(links, event.path) # {})
                => /\ i + n <= Len(handled.results)
                   /\ {Shown(handled.results[k]) : k \in (i + 1)..(i + n)}
                         = want

\* C10: when a link L whose target T resolves is created, and T is tracked
\* with entries below it, L is recorded under links[T], and Create(L) is
\* followed by one Create(L/rel) for every tracked entry T/rel below T; no
\* other path through L is created.
C10_SymlinkFollow ==
    handled.ran =>
        \A i \in 1..Len(handled.results) :
            LET event == handled.results[i]
                L == event.path
                T == FsCanonicalize(fs, L)
                below == {p \in DOMAIN manager.paths :
                             p # T /\ StartsWith(p, T)}
                through == {j \in 1..Len(handled.results) :
                               /\ handled.results[j].type = "Create"
                               /\ handled.results[j].path # L
                               /\ StartsWith(handled.results[j].path, L)}
            IN  (/\ event.type = "Create"
                 /\ event.kind = "Link"
                 /\ L \in DOMAIN manager.paths
                 /\ L \notin DOMAIN handled.before.paths
                 /\ T # NoPath
                 /\ T \in DOMAIN manager.paths
                 /\ below # {})
                => /\ T \in DOMAIN manager.links
                   /\ L \in Range(manager.links[T])
                   /\ \A j \in through : i < j
                   /\ {handled.results[j].path : j \in through}
                         = {L \o StripPrefix(p, T) : p \in below}
                   /\ Cardinality(through) = Cardinality(below)

\* the targets under which a link was recorded before the call
RecordedFor(L) ==
    {t \in DOMAIN handled.before.links : L \in Range(handled.before.links[t])}

\* the paths reachable through a recorded link when its removal is
\* followed: one for every entry tracked below a target of the link
Through(L) ==
    {L \o StripPrefix(p, t) :
        <<t, p>> \in {x \in RecordedFor(L) \X DOMAIN manager.paths :
                         x[2] # x[1] /\ StartsWith(x[2], x[1])}}

\* C11: when a recorded link L is removed, the results hold a Remove for
\* every path reachable through L, children before parents, before the
\* Remove of L itself; afterwards L is in no list of links and no list of
\* links is empty.
C11_SymlinkRemove ==
    handled.ran =>
        \A i \in 1..Len(handled.results) :
            LET event == handled.results[i]
                L == event.path
            IN  (/\ event.type = "Remove"
                 /\ event.kind = "Link"
                 /\ RecordedFor(L) # {})
                => /\ \A p \in Through(L) :
                         /\ \E j \in Places("Remove", p) : j < i
                         /\ \A q \in Through(L) :
                               (q # p /\ StartsWith(q, p)) =>
                                   \E j \in Places("Remove", q),
                                      k \in Places("Remove", p) :
                                       j < k /\ k < i
                   /\ \A t \in DOMAIN manager.links :
                         /\ L \notin Range(manager.links[t])
                         /\ manager.links[t] # <<>>

\* C12: after any sequence of calls, every path in a list of links is in
\* paths with kind Link.
C12_LinksAreLinks ==
    \A t \in DOMAIN manager.links :
        \A L \in Range(manager.links[t]) :
            /\ L \in DOMAIN manager.paths
            /\ manager.paths[L].kind = "Link"

(***************************************************************************)
(* The reload channel and the sweep of the event loop.                     *)
(***************************************************************************)
WakerRan == lastTick.ran /\ lastTick.step = "waker"

\* the peers the i-th notification of the last waker event was sent to
PeersAt(i) == IF i = 1 THEN lastTick.peers ELSE lastTick.log[i - 1].left

C13_Drain ==
    (WakerRan /\ lastTick.supplied) =>
        /\ Len(lastTick.log) = Len(lastTick.pending)
        /\ reload.pending = <<>>
        /\ \A i \in 1..Len(lastTick.log) :
              /\ lastTick.log[i].note = lastTick.pending[i]
              /\ \A j \in 1..Len(lastTick.log) :
                    i < j => lastTick.log[i].note < lastTick.log[j].note
              /\ lastTick.log[i].to = PeersAt(i)
              /\ lastTick.log[i].left =
                     lastTick.log[i].to \ lastTick.log[i].failed
        /\ clients = PeersAt(Len(lastTick.log) + 1)

C13_Leaves ==
    \A s \in clients \ clients' :
        /\ lastTick'.ran
        /\ lastTick'.step = "waker"
        /\ \E i \in 1..Len(lastTick'.log) : s \in lastTick'.log[i].failed

C14_Returned ==
    WakerRan =>
        /\ lastTick.result = "Disconnected" <=>
               (lastTick.supplied /\ lastTick.senders = 0)
        /\ lastTick.result = "Disconnected" =>
               /\ Len(lastTick.log) = Len(lastTick.pending)
               /\ \A i \in 1..Len(lastTick.log) :
                     lastTick.log[i].note = lastTick.pending[i]
               /\ reload.pending = <<>>

C14_Terminal ==
    /\ (status # "disconnected" /\ status' = "disconnected") =>
           /\ events # <<>>
           /\ Head(events).token = WakerToken
           /\ reload.supplied
           /\ reload.senders = 0
           /\ lastTick'.ran
           /\ lastTick'.step = "waker"
           /\ lastTick'.result = "Disconnected"
    /\ (lastTick'.ran /\ lastTick'.step = "waker"
          /\ lastTick'.result = "Disconnected") => status' = "disconnected"
    /\ status = "disconnected" =>
           /\ status' = "disconnected"
           /\ UNCHANGED <<connections, clients, registry, events>>

\* C14: poll returns the Disconnected error in the tick in which the waker's
\* token is handled with the receiver supplied and no sender left, after
\* the notifications still buffered have been broadcast; it is reported in
\* no other step (not without a waker event, not without a receiver), and
\* the loop takes no step after it.
C14_Disconnected == [](C14_Returned) /\ [][C14_Terminal]_vars

\* poll has returned Disconnected after sending a buffered notification to
\* a peer
C14_Witness ==
    /\ status = "disconnected"
    /\ WakerRan
    /\ lastTick.result = "Disconnected"
    /\ Len(lastTick.log) > 0
    /\ lastTick.peers # {}

\* C15: in the sweep of every tick, each connection whose last activity is
\* older than 30 s is removed and its socket deregistered, no connection
\* whose last activity is 30 s old or younger is removed, and the
\* WebSocket peers are left alone.
C15_InactivityReap ==
    (lastTick.ran /\ lastTick.step = "sweep") =>
        /\ \A k \in DOMAIN lastTick.idle :
              IF lastTick.idle[k].age > TimeoutSecs * UnitsPerSec
              THEN /\ k \in lastTick.removed
                   /\ ~SlabContains(connections, k)
                   /\ registry[lastTick.idle[k].socket] = NotRegistered
              ELSE /\ k \notin lastTick.removed
                   /\ SlabContains(connections, k)
                   /\ SlabGet(connections, k).socket =
                          lastTick.idle[k].socket
                   /\ registry[lastTick.idle[k].socket] # NotRegistered
        /\ clients = lastTick.peers

\* C16: a request that cannot be parsed never closes the connection:
\* Incomplete keeps it Reading with the bytes read so far and returns
\* Interest(READABLE); a validation error gives the response of its status
\* and any other error the response 400, and in both cases the connection
\* is Writing that response, with no upgrade and the handler not invoked.
C16_ParseOutcomes ==
    (lastRead.ran /\ lastRead.called /\ lastRead.nread > 0) =>
        LET buffer == lastRead.pre.buffer \o lastRead.bytes
            parsed == FromBytes(buffer)
            code == IF parsed \in Validations
                    THEN ValidationStatus(parsed) ELSE BadRequest
        IN  /\ parsed = "Incomplete" =>
                  /\ lastRead.post.state = "Reading"
                  /\ lastRead.post.buffer = buffer
                  /\ lastRead.signal = Interest({"R"})
                  /\ ~lastRead.invoked
            /\ parsed \notin {"Incomplete", "ok"} =>
                  /\ lastRead.post.state = "Writing"
                  /\ lastRead.post.cursor = IntoBytes(FromStatus(code))
                  /\ lastRead.post.pos = 0
                  /\ ~lastRead.post.upgrade
                  /\ ~lastRead.invoked
                  /\ lastRead.signal = Interest({"W"})

\* a read step has answered a validation error that is not a 400
C16_Witness ==
    /\ lastRead.ran
    /\ lastRead.called
    /\ lastRead.nread > 0
    /\ FromBytes(lastRead.pre.buffer \o lastRead.bytes) = "big"
    /\ lastRead.pre.buffer # <<>>
    /\ lastRead.post.state = "Writing"

\* C17: when a write on the socket fails with an error other than
\* WouldBlock, the write step ends and returns Close, and the loop removes
\* the connection and deregisters its socket.
C17_WriteErrorCloses ==
    (lastWrite.ran /\ lastWrite.pre.state = "Writing" /\ lastWrite.failed) =>
        /\ status = "running"
        /\ lastWrite.signal = Close
        /\ lastWrite.socket \notin HttpSockets
        /\ registry[lastWrite.socket] = NotRegistered

(***************************************************************************)
(* The agent's loop.                                                       *)
(***************************************************************************)
IsPrefixOf(s, t) == Len(s) <= Len(t) /\ SubSeq(t, 1, Len(s)) = s

C18_Armed == agent = "running" => (timer = "never" <=> queue = <<>>)

C18_Step ==
    lastStep'.ran =>
        /\ (lastStep'.arm \in {"command", "monitor"} /\ agent' = "running")
              => timer' = IF queue' = <<>> THEN "never" ELSE "armed"
        /\ lastStep'.arm = "timeout" =>
              /\ timer = "expired"
              /\ queue # <<>>
              /\ queue' = <<>>
              /\ \E rev \in BOOLEAN :
                    /\ lastStep'.results = Handle(fs, manager, queue, rev).out
                    /\ manager' = Handle(fs, manager, queue, rev).mgr
              /\ IsPrefixOf(lastStep'.delivered, lastStep'.results)
              /\ ~lastStep'.failed =>
                    lastStep'.delivered = lastStep'.results
        /\ lastStep'.arm # "timeout" => manager' = manager

C18_Pending == queue # <<>>

C18_Flushed == queue = <<>> \/ agent = "exited"

\* C18: the timeout is there only while the queue holds paths and starts
\* anew with every action or message that is handled; when it fires the
\* whole queue goes into one Manager::handle call whose results the callback
\* gets in their order; and a queue that holds paths is flushed in the end,
\* unless the thread of the agent has ended.
C18_Debounce ==
    /\ [](C18_Armed)
    /\ [][C18_Step]_vars
    /\ (C18_Pending ~> C18_Flushed)

\* a timeout has flushed two paths and the callback got all the results
C18_Witness ==
    /\ lastStep.ran
    /\ lastStep.arm = "timeout"
    /\ Len(lastStep.queue) >= 2
    /\ Len(lastStep.results) >= 2
    /\ lastStep.delivered = lastStep.results
    /\ queue = <<>>

\* C19: an action that is pending is handled before a pending message of
\* the monitor, and such a message before an expired timeout; a message of
\* a kind other than Create, Modify and Remove adds no path to the queue,
\* and the paths of the others are appended in the order they came.
C19_Priority ==
    lastStep.ran =>
        /\ lastStep.arm = "command" =>
              /\ lastStep.channel # <<>>
              /\ channel = Tail(lastStep.channel)
              /\ rawq = lastStep.rawq
        /\ lastStep.arm = "monitor" =>
              /\ lastStep.channel = <<>>
              /\ lastStep.rawq # <<>>
              /\ rawq = Tail(lastStep.rawq)
              /\ LET msg == Head(lastStep.rawq)
                 IN  queue = lastStep.queue \o
                        (IF msg.ok /\ msg.kind \in {"Create", "Modify",
                                                    "Remove"}
                         THEN msg.paths ELSE <<>>)
        /\ lastStep.arm = "timeout" =>
              /\ lastStep.channel = <<>>
              /\ lastStep.rawq = <<>>
              /\ lastStep.timer = "expired"

\* an action has been handled while a message of the monitor was pending
\* and the timeout had expired
C19_Witness ==
    /\ lastStep.ran
    /\ lastStep.arm = "command"
    /\ lastStep.rawq # <<>>
    /\ lastStep.timer = "expired"

C20_Failed ==
    lastStep.ran =>
        /\ lastStep.failed =>
              /\ agent = "exited"
              /\ lastStep.delivered # <<>>
              /\ IsPrefixOf(lastStep.delivered, lastStep.results)
        /\ ~lastStep.failed =>
              /\ lastStep.arm # "disconnected" => agent = "running"
              /\ lastStep.delivered = lastStep.results

C20_Exited ==
    agent = "exited" =>
        /\ UNCHANGED <<agent, queue, manager, channel, rawq, monitorVars>>
        /\ lastStep' \in {lastStep, NoStep}

\* C20: once the callback has returned an error, for an event, an error of
\* the backend or an error of watch or unwatch, it is not invoked again,
\* not for the results of the batch that are left either, and the thread of
\* the agent ends.
C20_CallbackError == [](C20_Failed) /\ [][C20_Exited]_vars

\* the callback has failed in the middle of a batch
C20_Witness ==
    /\ lastStep.ran
    /\ lastStep.failed
    /\ lastStep.arm = "timeout"
    /\ Len(lastStep.delivered) < Len(lastStep.results)
    /\ agent = "exited"

C21_Arms ==
    (lastStep.ran /\ ~lastStep.held) =>
        /\ lastStep.arm \in {"command", "disconnected"}
        /\ lastStep.arm = "command" => lastStep.channel # <<>>

C21_Step ==
    /\ (lastStep'.ran /\ lastStep'.arm = "disconnected") =>
          /\ ~owner.held
          /\ channel = <<>>
          /\ agent' = "exited"
          /\ lastStep'.delivered = <<>>
          /\ UNCHANGED <<queue, manager, monitorVars>>
    /\ ~owner.held =>
          /\ ~owner'.held
          /\ \/ channel' = channel
             \/ /\ channel' = Tail(channel)
                /\ lastStep'.ran
                /\ lastStep'.arm = "command"

C21_Dropped == ~owner.held

C21_Exited == agent = "exited"

\* C21: once the handle is dropped no action is sent any more, the actions
\* in the channel are handled one by one, and the thread ends with the
\* receive that finds the channel empty and without a sender: after the
\* drop no call of Handler::handle takes the arm of the monitor or of the
\* timeout.
C21_Shutdown ==
    /\ [](C21_Arms)
    /\ [][C21_Step]_vars
    /\ (C21_Dropped ~> C21_Exited)

\* the thread has ended on the empty channel while a message of the
\* monitor and paths in the queue were pending
C21_Witness ==
    /\ lastStep.ran
    /\ lastStep.arm = "disconnected"
    /\ lastStep.rawq # <<>>
    /\ lastStep.queue # <<>>
    /\ agent = "exited"

\* C22: a call of watch or unwatch made while the thread of the agent runs
\* returns Ok and leaves its action, for the path it was called with, as
\* the last of the channel.
C22_CallEnqueues ==
    (owner.call.ran /\ owner.call.running) =>
        /\ owner.call.ok
        /\ channel # <<>>
        /\ channel[Len(channel)] =
              [op |-> owner.call.op,
               path |-> FsCanonicalize(fs, owner.call.path)]

(***************************************************************************)
(* The backend calls of the monitor.                                       *)
(***************************************************************************)
\* the watches the backend holds after the calls, all of which succeed
RECURSIVE Watches(_, _)
Watches(held, calls) ==
    IF calls = <<>> THEN held
    ELSE Watches(IF Head(calls).op = "watch"
                 THEN held \cup {Head(calls).path}
                 ELSE held \ {Head(calls).path},
                 Tail(calls))

Overlap(held) == \E p, q \in held : ProperAncestor(p, q)

C23_Step ==
    monLast'.op = "watch" =>
        LET calls == monLast'.calls
        IN  /\ \A i, j \in 1..Len(calls) :
                  (calls[i].op = "unwatch" /\ calls[j].op = "watch")
                     => i < j
            /\ \A j \in 1..Len(calls) :
                  calls[j].op = "watch" =>
                     \A p \in DOMAIN monPaths :
                        (monPaths[p] /\ ProperAncestor(calls[j].path, p))
                           => \E i \in 1..(j - 1) :
                                 /\ calls[i].op = "unwatch"
                                 /\ calls[i].path = p
            /\ monFails' = 0 =>
                  \A k \in 0..Len(calls) :
                     ~Overlap(Watches(watching, Take(calls, k)))

C24_ModifyClassification ==
    handled.ran =>
        \A p \in Range(handled.batch) :
            (/\ Exists(p)
             /\ p \in DOMAIN handled.before.paths
             /\ GetFileId(fs, p) = handled.before.paths[p].id)
            => LET kind == handled.before.paths[p].kind
               IN  /\ kind \in {"File", "Link"} =>
                         /\ Cardinality(Places("Modify", p)) = 1
                         /\ \A i \in Places("Modify", p) :
                               handled.results[i].kind = kind
                   /\ kind = "Folder" => Places("Modify", p) = {}
                   /\ Places("Create", p) = {}
                   /\ handled.batch = <<p>> => manager = handled.before

(***************************************************************************)
(* Claims about the middlewares.                                           *)
(***************************************************************************)
Ran(mw) == call.mw = mw /\ call.ran

\* base is the request path or the path goes on with a slash after it; the
\* root is a prefix of every path
PathPrefix(base, path) ==
    \/ base = Root
    \/ path = base
    \/ StartsWith(path, base \o <<"/">>)

\* the call has done nothing but return next.handle(req)
Forwarded(req, next) ==
    /\ call.out.trace = <<next>>
    /\ call.out.res = HandlerHandle(next, req)

\* C25: a stack built under a scope with the base path B runs its
\* middlewares exactly when B is a prefix of the request path, the path B
\* itself, with or without a slash at its end, and the root for the base
\* "/" included, and returns next.handle(req) without invoking a middleware
\* otherwise; a stack without a matcher runs its middlewares for every
\* request.
C25_StackGate ==
    Ran("Stack::process") =>
        LET scope == call.input.scope
            req == call.input.req
            runs == call.out.trace[1] = 1
        IN  /\ scope = NoRoute => runs
            /\ scope # NoRoute => (runs <=> PathPrefix(scope, req.path))
            /\ ~runs => Forwarded(req, OkHandler)

\* the number of times the handler or middleware id was invoked
Invoked(id) ==
    Cardinality({k \in 1..Len(call.out.trace) : call.out.trace[k] = id})

\* the number of times a middleware calls its next handler
CallsNext(does) ==
    IF does = "answer" THEN 0 ELSE IF does = "forward" THEN 1 ELSE 2

\* C26: a stack called as a handler invokes its first middleware once, and
\* each later one, and the Not Found handler after the last, once for every
\* call its predecessor makes of next: in the order of registration, not at
\* all after a middleware that does not call next; when every middleware
\* forwards, the response is the 404 of the Not Found handler.
C26_StackOrder ==
    Ran("Stack::handle") =>
        LET does == call.input.does
            n == Len(does)
            trace == call.out.trace
            id(k) == IF k > n THEN NotFoundHandler ELSE k
            place(x) == IF x = NotFoundHandler THEN n + 1 ELSE x
        IN  /\ trace[1] = id(1)
            /\ Invoked(id(1)) = 1
            /\ \A k \in 1..n :
                  Invoked(id(k + 1)) = Invoked(k) * CallsNext(does[k])
            /\ \A k \in 1..(Len(trace) - 1) :
                  /\ place(trace[k + 1]) \in 2..(place(trace[k]) + 1)
                  /\ does[place(trace[k + 1]) - 1] # "answer"
            /\ (\A k \in 1..n : does[k] # "answer") =>
                  /\ call.out.res.status = NotFound
                  /\ call.out.res.seen = call.input.req

\* three middlewares have forwarded, the second one twice, and the Not
\* Found handler has answered
C26_Witness ==
    /\ Ran("Stack::handle")
    /\ call.input.does = <<"forward", "twice", "forward">>
    /\ call.out.trace = <<1, 2, 3, NotFoundHandler, 3, NotFoundHandler>>
    /\ call.out.res.status = NotFound

\* the parts of a path one after the other, a part that is "/" adding
\* nothing, and "/" if nothing is added
RECURSIVE Concatenated(_)
Concatenated(parts) ==
    IF parts = <<>> THEN <<>>
    ELSE (IF Head(parts) \in {Root, NoRoute} THEN <<>> ELSE Head(parts))
         \o Concatenated(Tail(parts))

Effective(parts) ==
    IF Concatenated(parts) = <<>> THEN Root ELSE Concatenated(parts)

\* the base paths above a group of routes
Bases(input, id) ==
    IF id = "outer" THEN <<input.scope, input.router.path>>
    ELSE <<input.scope, input.router.path, input.router.nested.path>>

Registered(input, id) ==
    IF id = "outer" THEN input.router.routes
    ELSE input.router.nested.routes

\* the routes of a group that the request matches
Matching(input, id) ==
    {i \in DOMAIN Registered(input, id) :
        /\ Registered(input, id)[i].method = input.req.method
        /\ At(Effective(Bases(input, id)
                        \o <<Registered(input, id)[i].path>>),
              IF input.req.path = Root THEN Root
              ELSE TrimEndMatches(input.req.path, "/"))}

Lowered(value) ==
    [i \in DOMAIN value |->
        IF value[i] = "Upgrade" THEN "upgrade"
        ELSE IF value[i] = "WebSocket" THEN "websocket"
        ELSE value[i]]

\* the value without the spaces around it
Bare(value) ==
    LET inner == {i \in DOMAIN value : value[i] # " "}
    IN  IF inner = {} THEN <<>>
        ELSE SubSeq(value,
                    CHOOSE i \in inner : \A j \in inner : i <= j,
                    CHOOSE i \in inner : \A j \in inner : j <= i)

\* the Connection header has the token upgrade: a stretch between commas,
\* or between a comma and an end, that is upgrade once the spaces around
\* it are dropped and the case is ignored
UpgradeToken(value) ==
    \E a, b \in 1..(Len(value) + 1) :
        /\ a <= b
        /\ a = 1 \/ value[a - 1] = ","
        /\ b = Len(value) + 1 \/ value[b] = ","
        /\ \A i \in a..(b - 1) : value[i] # ","
        /\ Lowered(Bare(SubSeq(value, a, b - 1))) = <<"upgrade">>

\* what the handshake is to answer, decided in the fixed order
Decision(req) ==
    LET h == req.headers
    IN  CASE h.upgrade = NoHeader \/ Lowered(h.upgrade) # <<"websocket">>
                -> "forward"
          [] OTHER ->
        CASE req.method # "GET" -> "405"
          [] OTHER ->
        CASE h.connection = NoHeader \/ ~UpgradeToken(h.connection) -> "400"
          [] OTHER ->
        CASE h.version # <<"13">> -> "426"
          [] OTHER ->
        CASE h.key = NoHeader -> "400"
          [] OTHER -> "101"

\* C28: the handshake decides in a fixed order: no Upgrade header, or a
\* value that is not "websocket" whatever its case, forwards to next; a
\* method other than GET gives 405 with Allow: GET; a Connection header
\* that is missing or has no token upgrade (split at commas, trimmed, any
\* case) gives 400; a Sec-WebSocket-Version other than "13" gives 426
\* advertising version 13; a missing Sec-WebSocket-Key gives 400; every
\* other request gets 101 with Upgrade: websocket, Connection: Upgrade and
\* a Sec-WebSocket-Accept header, and 101 is returned in no other case
C28_HandshakeOrder ==
    Ran("WebSocketHandshake") =>
        LET req == call.input.req
            res == call.out
            does == Decision(req)
            header(name) == {pair[2] : pair \in
                                {p \in res.headers : p[1] = name}}
        IN  /\ does = "forward" <=> res.seen = <<req>>
            /\ does # "forward" => res.seen = <<>>
            /\ does = "405" <=>
                  res.seen = <<>> /\ res.status = MethodNotAllowed
            /\ does = "405" => header("Allow") = {<<"GET">>}
            /\ does = "400" <=> res.seen = <<>> /\ res.status = BadRequest
            /\ does = "426" <=>
                  res.seen = <<>> /\ res.status = UpgradeRequired
            /\ does = "426" =>
                  /\ header("Sec-WebSocket-Version") = {<<"13">>}
                  /\ header("Upgrade") = {<<"websocket">>}
            /\ does = "101" <=> res.status = SwitchingProtocols
            /\ does = "101" =>
                  /\ header("Upgrade") = {<<"websocket">>}
                  /\ header("Connection") = {<<"Upgrade">>}
                  /\ header("Sec-WebSocket-Accept") # {}

\* a GET with Upgrade: WebSocket and the token Upgrade after a comma and
\* a space is answered with 101
C28_Witness ==
    /\ Ran("WebSocketHandshake")
    /\ call.input.req.headers.upgrade = <<"WebSocket">>
    /\ call.input.req.headers.connection = <<",", " ", "Upgrade">>
    /\ call.out.status = SwitchingProtocols

\* C29: under the base "/" every request is forwarded unchanged; under
\* another base a request for "/" is answered with 302 to the base and
\* next is not called, a request whose path begins with the base is
\* forwarded with that one leading prefix stripped and its query kept,
\* and a request whose path does not begin with the base is forwarded
\* unchanged
C29_BasePath ==
    Ran("BasePath") =>
        LET base == call.input.base
            req == call.input.req
            res == call.out
        IN  IF base = Root THEN res.seen = <<req>>
            ELSE IF req.path = Root
            THEN /\ res.seen = <<>>
                 /\ res.status = Found
                 /\ <<"Location", base>> \in res.headers
            ELSE IF IsPrefixOf(base, req.path)
            THEN res.seen =
                    <<[req EXCEPT !.path =
                          SubSeq(req.path, Len(base) + 1, Len(req.path))]>>
            ELSE res.seen = <<req>>

\* C30: StaticFiles forwards a request whose method is neither GET nor
\* HEAD to next; a GET of an existing file is answered 304 with
\* Content-Length 0 exactly when the request has an If-Modified-Since
\* date that can be parsed and is not before the modification time of
\* the file less one second, and 200 with the bytes of the file
\* otherwise; a HEAD of an existing file is answered 200 with an empty
\* body and the headers of the GET
C30_StaticFiles ==
    Ran("StaticFiles") =>
        LET req == call.input.req
            disk == call.input.disk
            res == call.out
            name == FilePath(req.path)
            since == req.headers.since
            fresh == /\ since # NoHeader
                     /\ since[1] = "date"
                     /\ (since[2] + 1) * UnitsPerSec >= disk.mtime
            served == {<<"Content-Type", Mime(name)>>,
                       <<"Content-Length", Len(Content(name))>>,
                       <<"Last-Modified",
                         <<"date", disk.mtime \div UnitsPerSec>>>>,
                       <<"Date", <<"date", Now \div UnitsPerSec>>>>}
        IN  /\ req.method \notin {"GET", "HEAD"} => res.seen = <<req>>
            /\ req.method = "GET" /\ name \in disk.files =>
                  /\ res.seen = <<>>
                  /\ res.status = NotModified <=> fresh
                  /\ fresh =>
                        /\ <<"Content-Length", 0>> \in res.headers
                        /\ res.body = <<>>
                  /\ ~fresh =>
                        /\ res.status = Ok
                        /\ res.body = Content(name)
                        /\ res.headers = served
            /\ req.method = "HEAD" /\ name \in disk.files =>
                  /\ res.seen = <<>>
                  /\ res.status = Ok
                  /\ res.body = <<>>
                  /\ res.headers = served

\* a GET with a date half a second before the modification time of the
\* file is answered 304
C30_Witness ==
    /\ Ran("StaticFiles")
    /\ call.input.req.method = "GET"
    /\ call.input.req.headers.since # NoHeader
    /\ call.input.req.headers.since[1] = "date"
    /\ call.input.req.headers.since[2] * UnitsPerSec < call.input.disk.mtime
    /\ call.out.status = NotModified

\* C39: every request that BasePath forwards to the next handler has a
\* path that begins with "/": whatever the base path and the request path
\* that begins with "/", the path next sees is not empty and starts with
\* "/"
C39_ForwardedPathAbsolute ==
    Ran("BasePath") =>
        \A i \in DOMAIN call.out.seen :
            /\ call.out.seen[i].path # <<>>
            /\ Head(call.out.seen[i].path) = "/"

\* C40: when StaticFiles finds no file for the request and next answers
\* 404, the response still has status 404, with or without 404.html
\* under the root: the contents of 404.html replace the body and the
\* content headers, never the status
C40_NotFoundStays ==
    Ran("StaticFiles") =>
        LET req == call.input.req
            disk == call.input.disk
        IN  /\ req.method \in {"GET", "HEAD"}
            /\ FilePath(req.path) \notin disk.files
            /\ call.input.next = NotFoundHandler
            => call.out.status = NotFound

\* C38: the bookkeeping of the monitor matches the backend after every
\* call, also when calls of the backend fail: the recorded roots that are
\* flagged active are the roots the backend watches, and a call that
\* returns an error leaves the recorded roots and their flags as they
\* were
C38_Bookkeeping ==
    /\ []({p \in DOMAIN monPaths : monPaths[p]} = watching)
    /\ [][monLast'.op # "none" /\ monLast'.result = "Err"
             => monPaths' = monPaths]_vars

\* C37: every signal the loop applies refers to a connection that is
\* still in the set of HTTP connections: for a readiness event of any
\* kind and the signals of its read and write steps, no signal is applied
\* to a slot that an earlier signal of the same event has removed, so
\* poll never panics on a missing connection
C37_SignalsHaveConnection == status # "panicked"

\* the live connections have the tokens of their slots, and no two of
\* them one socket
C36_Tokens ==
    \A k \in SlabKeys(connections) :
        /\ registry[SlabGet(connections, k).socket].token = NumAcceptors + k
        /\ \A j \in SlabKeys(connections) :
              j # k => SlabGet(connections, j).socket
                          # SlabGet(connections, k).socket

\* a read or write step runs on the socket its event was raised for
C36_Step ==
    /\ lastRead'.ran => lastRead'.socket = Head(events).socket
    /\ lastWrite'.ran => lastWrite'.socket = Head(events).socket

\* C36: a readiness event is applied only to the connection whose socket
\* was registered under the token of the event: in every tick, also one
\* in which a connection is reaped or closed and its slot is taken by a
\* connection accepted in the same tick, no read or write step runs on
\* another connection than the one the event was raised for, and the
\* live connections have distinct tokens, each the number of acceptors
\* plus the index of the slot
C36_EventOwner == [](C36_Tokens) /\ [][C36_Step]_vars

\* a notification in the channel has a wake behind it: the waker is
\* signalled, or its event waits in the tick, or the callback is about to
\* signal it
C35_WakePending ==
    status = "running" /\ reload.pending # <<>> =>
        \/ reload.woken
        \/ reload.sending
        \/ \E i \in DOMAIN events : events[i].token = WakerToken

\* the notification is taken from the channel by a waker event
C35_Broadcast(note) ==
    /\ lastTick.ran
    /\ lastTick.step = "waker"
    /\ note \in Range(lastTick.pending)

\* C35: no reload notification is stranded between the thread of the
\* watcher and the thread of the server: the callback sends the path
\* before it signals the waker and the server drains the channel on
\* every waker event, so in every interleaving a path that was sent is
\* broadcast in a later tick, and the server is never about to block in
\* poll with a notification in the channel and no wake pending (as long
\* as the loop of the server runs)
C35_NotStranded ==
    /\ [](C35_WakePending)
    /\ \A note \in 1..MaxNotes :
          (note \in Range(reload.pending))
             ~> (C35_Broadcast(note) \/ status # "running")

\* a waker event has taken two notifications from the channel, the
\* second of which the callback has sent and not yet signalled
C35_Witness ==
    /\ lastTick.ran
    /\ lastTick.step = "waker"
    /\ Len(lastTick.pending) = 2
    /\ Len(lastTick.log) = 2
    /\ reload.sending

(***************************************************************************)
(* Liveness of a connection.                                               *)
(***************************************************************************)

\* the connection of socket s, if it has one
ConnOf(s) ==
    {SlabGet(connections, k) :
        k \in {j \in SlabKeys(connections) :
                  SlabGet(connections, j).socket = s}}

\* the socket of a Reading connection has received a complete valid request
C34_Received(s) ==
    \E conn \in ConnOf(s) :
        /\ conn.state = "Reading"
        /\ FromBytes(conn.buffer \o net[s].in) = "ok"

C34_Invoked(s) ==
    /\ lastRead.ran
    /\ lastRead.socket = s
    /\ lastRead.invoked

C34_Written(s) ==
    /\ lastWrite.ran
    /\ lastWrite.socket = s
    /\ lastWrite.pre.state = "Writing"
    /\ lastWrite.ret = "break"
    /\ lastWrite.response # <<>>
    /\ lastWrite.sent = lastWrite.response

C34_IsWriting(s) == \E conn \in ConnOf(s) : conn.state = "Writing"

\* C34: under fair delivery of readiness events and a peer that keeps
\* reading, a connection that has received a complete valid request, in one
\* read or in several, has its handler invoked, by a read step that found it
\* Reading with nothing of an earlier response owed, and then the whole
\* response written; the step that writes the last byte leaves the socket a
\* Reading connection registered for reading or a peer; no connection stays
\* Writing forever and every step returns.
C34_ConnectionLiveness ==
    /\ [](/\ status = "running"
          /\ \A s \in 1..MaxSock :
                /\ C34_Invoked(s) =>
                      /\ lastRead.pre.state = "Reading"
                      /\ lastRead.owed = 0
                      /\ C34_IsWriting(s)
                /\ C34_Written(s) =>
                      \/ s \in clients /\ ConnOf(s) = {}
                      \/ /\ s \notin clients
                         /\ \A conn \in ConnOf(s) : conn.state = "Reading"
                         /\ ConnOf(s) # {}
                         /\ registry[s].interest = {"R"})
    /\ \A s \in 1..MaxSock :
          /\ C34_Received(s) ~> C34_Invoked(s)
          /\ C34_Invoked(s) ~> C34_Written(s)
          /\ C34_IsWriting(s) ~> ~C34_IsWriting(s)

\* A request that came in two reads was answered in two writes.
C34_Witness ==
    /\ lastWrite.ran
    /\ lastWrite.pre.state = "Writing"
    /\ lastWrite.pre.pos > 0
    /\ lastWrite.ret = "break"
    /\ lastWrite.sent = lastWrite.response
    /\ net[lastWrite.socket].peer = "open"
    /\ budget = 0

(***************************************************************************)
(* Claims about the request URI.                                           *)
(***************************************************************************)

\* C31: a request whose decoded path has a segment ".." between its
\* slashes, written plainly or with percent escapes, is rejected with
\* Validation(BadRequest); a path that begins with a slash and has no such
\* segment is accepted and stored as decoded, with its "." segments and
\* with names that merely hold two dots, and as written when it holds no
\* escape.
C31_Traversal ==
    (call.mw = "Request" /\ call.ran) =>
        LET decoded == Decode(call.input)
            parent == <<".", ".">> \in Range(SplitOn(decoded, "/", <<>>))
            slash == decoded # <<>> /\ Head(decoded) = "/"
        IN  /\ parent => call.out = Validation(BadRequest)
            /\ (slash /\ ~parent) =>
                  /\ call.out.kind = "Ok"
                  /\ call.out.path = decoded
                  /\ Range(call.input) \cap {"%", "+"} = {} =>
                        call.out.path = call.input

\* The path "/%2e%2e" was rejected.
C31_Witness ==
    /\ call.mw = "Request"
    /\ call.ran
    /\ call.input = <<"/", "%", "2", "e", "%", "2", "e">>
    /\ call.out = Validation(BadRequest)

\* The paths "/n/./n" and "/n..n" were accepted as they are.
C31_Accepted ==
    /\ call.mw = "Request"
    /\ call.ran
    /\ call.input \in {<<"/", "n", "/", ".", "/", "n">>,
                       <<"/", "n", ".", ".", "n">>}
    /\ call.out.kind = "Ok"
    /\ call.out.path = call.input

\* the pair of one piece of a query string: cut at its first equals sign
C32_Pair(piece) ==
    LET key == SplitOn(piece, "=", <<>>)[1]
    IN  [key |-> Decode(key),
         value |-> Decode(SubSeq(piece, Len(key) + 2, Len(piece)))]

\* the pairs of a query string: its pieces between the ampersands, in order
C32_Pairs(value) ==
    IF value = <<>> THEN <<>>
    ELSE LET pieces == SplitOn(value, "&", <<>>)
         IN  [i \in 1..Len(pieces) |-> C32_Pair(pieces[i])]

\* the values a key has in a list of pairs, in order
C32_Values(pairs, key) ==
    LET found == SelectSeq(pairs, LAMBDA p : p.key = key)
    IN  [i \in 1..Len(found) |-> found[i].value]

\* C32: Query::from gives one pair for every piece between two ampersands,
\* in order, cut at the first equals sign of the piece, duplicate keys kept
\* and keys and values of one character included; get gives the first
\* value of a key, get_all all of them in order, contains whether there
\* is one.
C32_QueryParse ==
    (call.mw = "Query" /\ call.ran) =>
        /\ call.out = C32_Pairs(call.input)
        /\ \A key \in QueryKeys :
              LET values == C32_Values(C32_Pairs(call.input), key)
              IN  /\ QueryGetAll(call.out, key) = values
                  /\ QueryContains(call.out, key) = (values # <<>>)
                  /\ QueryGet(call.out, key) =
                        (IF values = <<>> THEN NoValue ELSE values[1])

\* C33: decoding what encode gives returns the string that was encoded,
\* for every string of characters the encoder takes, the plus sign, the
\* percent sign, the space and the separators of a query string among them.
C33_RoundTrip ==
    (call.mw = "Encoding" /\ call.ran) => call.out.decoded = call.input

====
